---- MODULE Spec2Model ----
(***************************************************************************)
(* A model of heimdall's DOM serialization (dom/service.py), its action    *)
(* registry (tools/registry.py), its index-taking actions                  *)
(* (tools/actions.py) and the element interaction engine                   *)
(* (browser/element.py).                                                   *)
(*                                                                         *)
(* Python strings that the code inspects (upper(), lower(), "in", split,   *)
(* slicing, f-strings) are modelled as sequences of one-character strings, *)
(* so that those operations are computed and not assumed.                  *)
(***************************************************************************)
EXTENDS Integers, Sequences, FiniteSets, TLC

VARIABLES
    nodes,        \* the node list handed to DOMSerializer.serialize
    serialized,   \* the SerializedDOM it returned, or None
    again,        \* what a second call with the same list returned, or None
    pc,           \* where ToolRegistry.execute and the action it runs stand
    session,      \* ToolRegistry._session: TRUE when a started session is set
    dom_state,    \* ToolRegistry._dom_state: None or a SerializedDOM
    call,         \* the (name, params) of the execute call in progress
    attempt,      \* with_retry's loop variable
    last_error,   \* with_retry's last_error
    sent,         \* the commands that act on the page (input events, scripted
                  \* actions, scrolls, focus), in order, sent by the current
                  \* attempt since the stage of fill in progress, if any, began
    queried,      \* TRUE once the current attempt has sent a command that only
                  \* reads from the page
    loc,          \* the locals of the Element operation in progress, with the
                  \* browser's answers to it
    page,         \* the page: whether the element was scrolled into view
    stack,        \* return labels of the Element operations in progress
    outcome,      \* what execute gave its caller: None, a result, or a raise
    invoked,      \* what each call of action_fn made by with_retry gave, in order
    cdp,          \* what the browser gives the three calls of get_state: the
                  \* answers, and which of the calls fail
    results,      \* the list asyncio.gather is filling in get_state
    order,        \* the coroutines of get_state that completed, in that order
    measured,     \* the arguments of a call of _find_best_click_point
    best_point,   \* the point it returned, or None
    subjects,     \* the DOMNode objects whose properties are read
    props,        \* per subject, the properties read so far
    handlers,     \* EventBus._handlers: per event type, the list of handlers
    once_handlers,\* EventBus._once_handlers
    registrations,\* how many calls of on and once the bus has had
    emitting,     \* the locals of the call of emit, or None before the first
    calls,        \* the handler calls that emit has made, in order
    emits,        \* how many calls of emit have begun
    config,       \* Agent._config
    state,        \* Agent._state
    history,      \* Agent._history
    run,          \* where Agent.run stands, with the flags of pause and exit
    saved,        \* the state file of the run_id: None or a PersistedState
    allowed_domains, \* ToolRegistry._allowed_domains
    loaded,       \* the URLs the browser was told to load, with the action
    reply,        \* the ActionResult of the last of these actions, or None
    browser,      \* BrowserSession._tabs and _target_id, None before start
    tab_reply,    \* how the last call of a tab operation ended, or None
    tab_calls,    \* how many calls of tab operations there have been
    watch,        \* the NetworkWatchdog, None before it is made
    now,          \* the clock of the event loop
    net,          \* the requests of the page and the watchdog's last answer
    frames,       \* the calls of EventBus.emit in flight together
    times_called  \* how often the handler of each registration has been called

domVars == <<nodes, serialized, again>>
actVars == <<pc, session, dom_state, call, attempt, last_error, sent, queried, loc, page,
             stack, outcome>>
retryVars == <<invoked>>
stateVars == <<cdp, results, order>>
pointVars == <<measured, best_point>>
nodeVars == <<subjects, props>>
busVars == <<handlers, once_handlers, registrations, emitting, calls, emits>>
agentVars == <<config, state, history, run, saved>>
guardVars == <<allowed_domains, loaded, reply>>
tabVars == <<browser, tab_reply, tab_calls>>
netVars == <<watch, now, net>>
emitVars == <<frames, times_called>>
lateVars == <<guardVars, tabVars, netVars, emitVars>>
moreVars == <<nodeVars, busVars, agentVars, lateVars>>
vars == <<domVars, actVars, retryVars, stateVars, pointVars, moreVars>>

(***************************************************************************)
(* Bounds of the model.                                                    *)
(***************************************************************************)
MaxNodes == 3
MaxElems == 1

(***************************************************************************)
(* Python values.                                                          *)
(***************************************************************************)
None == [none |-> TRUE]

Min(a, b) == IF a <= b THEN a ELSE b

Lowers == <<"a","b","c","d","e","f","g","h","i","j","k","l","m",
            "n","o","p","q","r","s","t","u","v","w","x","y","z">>
Uppers == <<"A","B","C","D","E","F","G","H","I","J","K","L","M",
            "N","O","P","Q","R","S","T","U","V","W","X","Y","Z">>

\* str.upper() and str.lower(), character by character
UpperChar(c) ==
    IF \E i \in 1..26 : Lowers[i] = c
    THEN Uppers[CHOOSE i \in 1..26 : Lowers[i] = c] ELSE c
LowerChar(c) ==
    IF \E i \in 1..26 : Uppers[i] = c
    THEN Lowers[CHOOSE i \in 1..26 : Uppers[i] = c] ELSE c
Upper(s) == [i \in 1..Len(s) |-> UpperChar(s[i])]
Lower(s) == [i \in 1..Len(s) |-> LowerChar(s[i])]

\* the Python expression  sub in s  for two strings
Contains(sub, s) ==
    \E i \in 0..(Len(s) - Len(sub)) : SubSeq(s, i + 1, i + Len(sub)) = sub

\* the Python slice s[:n]
Truncate(s, n) == SubSeq(s, 1, Min(n, Len(s)))

\* str(n) for a natural number n
Digits == <<"0","1","2","3","4","5","6","7","8","9">>
RECURSIVE IntToStr(_)
IntToStr(n) ==
    IF n < 10 THEN <<Digits[n + 1]>>
    ELSE IntToStr(n \div 10) \o <<Digits[(n % 10) + 1]>>

\* sep.join(parts)
RECURSIVE Join(_, _)
Join(parts, sep) ==
    IF parts = <<>> THEN <<>>
    ELSE IF Len(parts) = 1 THEN parts[1]
    ELSE parts[1] \o sep \o Join(Tail(parts), sep)

\* s.split(sep)[0] for a one-character separator
RECURSIVE SplitFirst(_, _)
SplitFirst(s, sep) ==
    IF s = <<>> \/ Head(s) = sep THEN <<>>
    ELSE <<Head(s)>> \o SplitFirst(Tail(s), sep)

\* s.rstrip(ch)
RECURSIVE RStrip(_, _)
RStrip(s, ch) ==
    IF s # <<>> /\ s[Len(s)] = ch THEN RStrip(SubSeq(s, 1, Len(s) - 1), ch) ELSE s

\* dict.get(key, "") on a dict of strings
Get(d, key) == IF key \in DOMAIN d THEN d[key] ELSE <<>>

(***************************************************************************)
(* DOMNode                                                                 *)
(***************************************************************************)
interactive_tags ==
    { <<"A">>, <<"B","U","T","T","O","N">>, <<"I","N","P","U","T">>,
      <<"S","E","L","E","C","T">>, <<"T","E","X","T","A","R","E","A">>,
      <<"L","A","B","E","L">>, <<"D","E","T","A","I","L","S">>,
      <<"S","U","M","M","A","R","Y">>, <<"O","P","T","I","O","N">>,
      <<"O","P","T","G","R","O","U","P">> }

interactive_roles ==
    { <<"b","u","t","t","o","n">>, <<"l","i","n","k">>,
      <<"m","e","n","u","i","t","e","m">>, <<"o","p","t","i","o","n">>,
      <<"r","a","d","i","o">>, <<"c","h","e","c","k","b","o","x">>,
      <<"t","a","b">>, <<"t","e","x","t","b","o","x">>,
      <<"c","o","m","b","o","b","o","x">>, <<"s","l","i","d","e","r">>,
      <<"s","p","i","n","b","u","t","t","o","n">>, <<"s","e","a","r","c","h">>,
      <<"s","e","a","r","c","h","b","o","x">>, <<"l","i","s","t","b","o","x">>,
      <<"s","w","i","t","c","h">>, <<"t","r","e","e","i","t","e","m">> }

event_handlers ==
    { <<"o","n","c","l","i","c","k">>, <<"o","n","m","o","u","s","e","d","o","w","n">>,
      <<"o","n","m","o","u","s","e","u","p">>, <<"o","n","k","e","y","d","o","w","n">>,
      <<"o","n","k","e","y","u","p">> }

\* mutant: an interactive tag or role is required
is_interactive_TagOrRole(node) ==
    \/ Upper(node.node_name) \in interactive_tags
    \/ node.ax_role \in interactive_roles

is_interactive(node) ==
    \/ Upper(node.node_name) \in interactive_tags
    \/ node.ax_role \in interactive_roles
    \/ /\ DOMAIN node.attributes # {}
       /\ \/ Get(node.attributes, <<"r","o","l","e">>) \in interactive_roles
          \/ LET contenteditable ==
                    Get(node.attributes,
                        <<"c","o","n","t","e","n","t","e","d","i","t","a","b","l","e">>)
             IN  /\ contenteditable # <<>>
                 /\ Lower(contenteditable) \notin {<<"f","a","l","s","e">>, <<>>}
          \/ \E attr \in event_handlers : attr \in DOMAIN node.attributes
          \/ <<"t","a","b","i","n","d","e","x">> \in DOMAIN node.attributes
          \/ LET style == Get(node.attributes, <<"s","t","y","l","e">>)
             IN  /\ Contains(<<"c","u","r","s","o","r">>, style)
                 /\ Contains(<<"p","o","i","n","t","e","r">>, style)

\* bbox.get(key, 0) on the bounding box dict
BoxGet(bbox, key) == IF key \in DOMAIN bbox THEN bbox[key] ELSE 0

\* mutant: the height is not looked at
is_visible_WidthOnly(node) ==
    IF node.bounding_box = None \/ DOMAIN node.bounding_box = {}
    THEN FALSE
    ELSE BoxGet(node.bounding_box, "width") > 0

is_visible(node) ==
    IF node.bounding_box = None \/ DOMAIN node.bounding_box = {}
    THEN FALSE
    ELSE /\ BoxGet(node.bounding_box, "width") > 0
         /\ BoxGet(node.bounding_box, "height") > 0

(***************************************************************************)
(* SelectorGenerator                                                       *)
(***************************************************************************)
\* the attributes the XPath selector combines, in the order of the code
XPathKeys == << <<"i","d">>, <<"n","a","m","e">>, <<"d","a","t","a","-","t","e","s","t","i","d">> >>

\* the f-string  @key='value'  of one present attribute
XPathAttr(node, key) == <<"@">> \o key \o <<"=","'">> \o node.attributes[key] \o <<"'">>

\* the list attrs of generate: one entry per present, non-empty attribute
XPathAttrs(node) ==
    LET F[i \in 0..Len(XPathKeys)] ==
            IF i = 0 THEN <<>>
            ELSE IF Get(node.attributes, XPathKeys[i]) # <<>>
                 THEN Append(F[i - 1], XPathAttr(node, XPathKeys[i]))
                 ELSE F[i - 1]
    IN  F[Len(XPathKeys)]

\* mutant: the query string stays
StableHref_WithQuery(node) == RStrip(Get(node.attributes, <<"h","r","e","f">>), "/")

\* href with the query string and trailing slashes removed
StableHref(node) == RStrip(SplitFirst(Get(node.attributes, <<"h","r","e","f">>), "?"), "/")

generate(node) ==
    LET a == node.attributes
        kinds ==
            {k \in {"css_id"} : Get(a, <<"i","d">>) # <<>>}
            \cup {k \in {"testid"} : Get(a, <<"d","a","t","a","-","t","e","s","t","i","d">>) # <<>>}
            \cup {k \in {"aria"} : Get(a, <<"a","r","i","a","-","l","a","b","e","l">>) # <<>>}
            \cup {k \in {"placeholder"} : Get(a, <<"p","l","a","c","e","h","o","l","d","e","r">>) # <<>>}
            \cup {k \in {"name"} : Get(a, <<"n","a","m","e">>) # <<>>}
            \cup {k \in {"href", "href_xpath"} :
                      /\ Upper(node.node_name) = <<"A">>
                      /\ Get(a, <<"h","r","e","f">>) # <<>>
                      /\ StableHref(node) # <<>>}
            \cup {k \in {"text"} : node.ax_name # <<>>}
            \cup {k \in {"xpath"} : XPathAttrs(node) # <<>>}
    IN  [k \in kinds |->
            CASE k = "css_id" -> <<"#">> \o a[<<"i","d">>]
              [] k = "testid" -> <<"[","d","a","t","a","-","t","e","s","t","i","d","=","\"">> \o a[<<"d","a","t","a","-","t","e","s","t","i","d">>] \o <<"\"","]">>
              [] k = "aria" -> <<"[","a","r","i","a","-","l","a","b","e","l","=","\"">> \o a[<<"a","r","i","a","-","l","a","b","e","l">>] \o <<"\"","]">>
              [] k = "placeholder" -> <<"[","p","l","a","c","e","h","o","l","d","e","r","=","\"">> \o a[<<"p","l","a","c","e","h","o","l","d","e","r">>] \o <<"\"","]">>
              [] k = "name" -> <<"[","n","a","m","e","=","\"">> \o a[<<"n","a","m","e">>] \o <<"\"","]">>
              [] k = "href" -> <<"a","[","h","r","e","f","*","=","\"">> \o StableHref(node) \o <<"\"","]">>
              [] k = "href_xpath" ->
                    <<"/","/","a","[","c","o","n","t","a","i","n","s","(","@","h","r","e","f",","," ","'">> \o StableHref(node) \o <<"'",")","]">>
              [] k = "text" -> node.ax_name
              [] k = "xpath" ->
                    <<"/","/">> \o Lower(node.node_name) \o <<"[">>
                    \o Join(XPathAttrs(node), <<" ","a","n","d"," ">>) \o <<"]">> ]

(***************************************************************************)
(* DOMSerializer                                                           *)
(***************************************************************************)
\* one conditionally appended token of the description
Opt(cond, token) == IF cond THEN <<token>> ELSE <<>>

\* the attributes _describe_node probes for a test identifier, in order
TestIdAttrs == << <<"d","a","t","a","-","t","e","s","t","i","d">>, <<"d","a","t","a","-","c","y">>, <<"d","a","t","a","-","t","e","s","t">>, <<"d","a","t","a","-","s","e","l","e","n","i","u","m">> >>

\* the first test-id attribute that is present and non-empty, as a token list
FirstTestId(a) ==
    LET hits == {i \in 1..Len(TestIdAttrs) : Get(a, TestIdAttrs[i]) # <<>>}
    IN  IF hits = {} THEN <<>>
        ELSE LET i == CHOOSE j \in hits : \A h \in hits : j <= h
             IN  << TestIdAttrs[i] \o <<"=","\"">> \o a[TestIdAttrs[i]] \o <<"\"">> >>

describe_node(node) ==
    LET a == node.attributes
        role == IF Get(a, <<"r","o","l","e">>) # <<>> THEN Get(a, <<"r","o","l","e">>) ELSE node.ax_role
        placeholder == IF Get(a, <<"p","l","a","c","e","h","o","l","d","e","r">>) # <<>>
                       THEN Get(a, <<"p","l","a","c","e","h","o","l","d","e","r">>)
                       ELSE Get(a, <<"d","a","t","a","-","p","l","a","c","e","h","o","l","d","e","r">>)
        ac == Get(a, <<"a","u","t","o","c","o","m","p","l","e","t","e">>)
        parts ==
            << Lower(node.node_name) >>
            \o Opt(node.ax_name # <<>>, <<"\"">> \o node.ax_name \o <<"\"">>)
            \o Opt(role # <<>> /\ Upper(node.node_name) = <<"D","I","V">>, <<"r","o","l","e","=">> \o role)
            \o Opt(Get(a, <<"c","o","n","t","e","n","t","e","d","i","t","a","b","l","e">>) # <<>>, <<"c","o","n","t","e","n","t","e","d","i","t","a","b","l","e">>)
            \o Opt(Get(a, <<"t","y","p","e">>) # <<>>, <<"t","y","p","e","=">> \o Get(a, <<"t","y","p","e">>))
            \o Opt(placeholder # <<>>,
                   <<"p","l","a","c","e","h","o","l","d","e","r","=","\"">> \o Truncate(placeholder, 30) \o <<"\"">>)
            \o Opt(node.ax_name = <<>> /\ Get(a, <<"a","r","i","a","-","l","a","b","e","l">>) # <<>>,
                   <<"\"">> \o Get(a, <<"a","r","i","a","-","l","a","b","e","l">>) \o <<"\"">>)
            \o Opt(Get(a, <<"r","e","q","u","i","r","e","d">>) # <<>>, <<"r","e","q","u","i","r","e","d">>)
            \o Opt(Get(a, <<"p","a","t","t","e","r","n">>) # <<>>,
                   <<"p","a","t","t","e","r","n","=","\"">> \o Truncate(Get(a, <<"p","a","t","t","e","r","n">>), 20) \o <<".",".",".","\"">>)
            \o Opt(Get(a, <<"m","i","n">>) # <<>>, <<"m","i","n","=">> \o Get(a, <<"m","i","n">>))
            \o Opt(Get(a, <<"m","a","x">>) # <<>>, <<"m","a","x","=">> \o Get(a, <<"m","a","x">>))
            \o Opt(Get(a, <<"m","i","n","l","e","n","g","t","h">>) # <<>>, <<"m","i","n","l","e","n","=">> \o Get(a, <<"m","i","n","l","e","n","g","t","h">>))
            \o Opt(Get(a, <<"m","a","x","l","e","n","g","t","h">>) # <<>>, <<"m","a","x","l","e","n","=">> \o Get(a, <<"m","a","x","l","e","n","g","t","h">>))
            \o Opt(Get(a, <<"s","t","e","p">>) # <<>>, <<"s","t","e","p","=">> \o Get(a, <<"s","t","e","p">>))
            \o Opt(Get(a, <<"i","n","p","u","t","m","o","d","e">>) # <<>>, <<"i","n","p","u","t","m","o","d","e","=">> \o Get(a, <<"i","n","p","u","t","m","o","d","e">>))
            \o Opt(ac # <<>> /\ ac \notin {<<"o","n">>, <<"o","f","f">>}, <<"a","u","t","o","c","o","m","p","l","e","t","e","=">> \o ac)
            \o Opt(Get(a, <<"a","c","c","e","p","t">>) # <<>>,
                   <<"a","c","c","e","p","t","=">> \o Truncate(Get(a, <<"a","c","c","e","p","t">>), 20))
            \o Opt(Get(a, <<"m","u","l","t","i","p","l","e">>) # <<>>, <<"m","u","l","t","i","p","l","e">>)
            \o FirstTestId(a)
            \o Opt(<<"d","i","s","a","b","l","e","d">> \in DOMAIN a, <<"d","i","s","a","b","l","e","d">>)
            \o Opt(<<"r","e","a","d","o","n","l","y">> \in DOMAIN a, <<"r","e","a","d","o","n","l","y">>)
    IN  Join(parts, <<" ">>)

\* mutant: the filter forgets visibility
Included_NoVisibility(n) == is_interactive(n)

\* the condition of serialize's filter
Included(n) == is_visible(n) /\ is_interactive(n)

\* mutant: the serializer goes on counting where its last call stopped
IndexOf_Continued(pos) == pos + (IF serialized = None THEN 0 ELSE serialized.element_count)

\* mutant: indices start at 1
IndexOf_OneBased(pos) == pos + 1

\* the index serialize gives the node at (0-based) position pos of the filtered list
IndexOf(pos) == pos

\* the f-string  [idx] desc
Line(idx, node) == <<"[">> \o IntToStr(idx) \o <<"]"," ">> \o describe_node(node)

serialize(ns) ==
    LET interactive_nodes == SelectSeq(ns, Included)
        n == Len(interactive_nodes)
    IN  [ text |-> Join([p \in 1..n |->
                            Line(IndexOf(p - 1), interactive_nodes[p])], <<"\n">>),
          selector_map |->
            [idx \in {IndexOf(p - 1) : p \in 1..n} |->
                LET node == interactive_nodes[CHOOSE p \in 1..n : IndexOf(p - 1) = idx]
                IN  [ backend_node_id |-> node.backend_node_id,
                      selectors |-> generate(node),
                      tag |-> node.node_name,
                      attributes |-> node.attributes ]],
          element_count |-> n,
          scroll_info |-> <<>> ]

(***************************************************************************)
(* DomService._build_tree and get_state (dom/service.py)                   *)
(***************************************************************************)
\* the dict {}
EmptyDict == [k \in {} |-> <<>>]

\* d.get(key, default)
DictGet(d, key, default) == IF key \in DOMAIN d THEN d[key] ELSE default

\* strings[idx] if 0 <= idx < len(strings) else ""
StringAt(strings, idx) ==
    IF 0 <= idx /\ idx < Len(strings) THEN strings[idx + 1] ELSE <<>>

\* the list node_name.upper() is looked up in
SkippedNames ==
    { <<"#","t","e","x","t">>, <<"#","c","o","m","m","e","n","t">>, <<"S","C","R","I","P","T">>, <<"S","T","Y","L","E">>, <<"M","E","T","A">>, <<"L","I","N","K">>, <<"H","E","A","D">> }

\* the test that makes _build_tree pass over a node
IsSkipped(node_name) == Upper(node_name) \in SkippedNames

\* attr_dict: the pairs of attr_list, a later pair replacing an earlier one
\* of the same name
AttrDict(attr_list, strings) ==
    LET pairs == 1..(Len(attr_list) \div 2)
        attr_name(k) == StringAt(strings, attr_list[2 * k - 1])
        attr_val(k) == StringAt(strings, attr_list[2 * k])
    IN  [ a \in {attr_name(k) : k \in pairs} |->
            attr_val(CHOOSE k \in pairs :
                        attr_name(k) = a /\ \A l \in pairs : attr_name(l) = a => l <= k) ]

\* bbox of the node at index i, from the document's layout
BBoxOf(i, layout_info) ==
    LET layout_indices == DictGet(layout_info, "nodeIndex", <<>>)
        layout_bounds == DictGet(layout_info, "bounds", <<>>)
        at == {p \in DOMAIN layout_indices : layout_indices[p] = i}
    IN  IF at = {} THEN None
        ELSE LET layout_idx == (CHOOSE p \in at : \A q \in at : p <= q) - 1
             IN  IF layout_idx >= Len(layout_bounds) THEN None
                 ELSE LET b == layout_bounds[layout_idx + 1]
                      IN  IF Len(b) >= 4
                          THEN [x |-> b[1], y |-> b[2], width |-> b[3], height |-> b[4]]
                          ELSE None

\* ax_nodes.get(backend_id, {}): the last node of the accessibility tree that
\* carries this backendDOMNodeId
AxNodeOf(ax_tree, backend_id) ==
    LET ax == DictGet(ax_tree, "nodes", <<>>)
        at == {p \in DOMAIN ax : DictGet(ax[p], "backendDOMNodeId", 0) = backend_id}
    IN  IF backend_id = 0 \/ at = {} THEN EmptyDict
        ELSE ax[CHOOSE p \in at : \A q \in at : q <= p]

\* the DOMNode made of the node at index i of the document
NodeAt(i, doc, strings, ax_tree) ==
    LET node_names == DictGet(DictGet(doc, "nodes", EmptyDict), "nodeName", <<>>)
        backend_ids == DictGet(DictGet(doc, "nodes", EmptyDict), "backendNodeId", <<>>)
        parent_indices == DictGet(DictGet(doc, "nodes", EmptyDict), "parentIndex", <<>>)
        attributes == DictGet(DictGet(doc, "nodes", EmptyDict), "attributes", <<>>)
        name_idx == IF i < Len(node_names) THEN node_names[i + 1] ELSE -1
        ax_node == AxNodeOf(ax_tree, backend_ids[i + 1])
    IN  [ backend_node_id |-> backend_ids[i + 1],
          node_name |-> StringAt(strings, name_idx),
          attributes |-> IF i < Len(attributes)
                         THEN AttrDict(attributes[i + 1], strings) ELSE EmptyDict,
          bounding_box |-> BBoxOf(i, DictGet(doc, "layout", EmptyDict)),
          ax_name |-> DictGet(DictGet(ax_node, "name", EmptyDict), "value", <<>>),
          ax_role |-> DictGet(DictGet(ax_node, "role", EmptyDict), "value", <<>>),
          parent_index |-> IF i < Len(parent_indices) THEN parent_indices[i + 1] ELSE -1 ]

\* the loop over backend_ids, from index i on
RECURSIVE BuildFrom(_, _, _, _)
BuildFrom(i, doc, strings, ax_tree) ==
    LET backend_ids == DictGet(DictGet(doc, "nodes", EmptyDict), "backendNodeId", <<>>)
    IN  IF i >= Len(backend_ids) THEN <<>>
        ELSE LET node == NodeAt(i, doc, strings, ax_tree)
                 rest == BuildFrom(i + 1, doc, strings, ax_tree)
             IN  IF backend_ids[i + 1] = 0 \/ IsSkipped(node.node_name)
                 THEN rest ELSE <<node>> \o rest

build_tree(snapshot, ax_tree, layout) ==
    LET documents == DictGet(snapshot, "documents", <<>>)
    IN  IF Len(documents) = 0 THEN <<>>
        ELSE BuildFrom(0, documents[1], DictGet(snapshot, "strings", <<>>), ax_tree)

\* the scroll_info get_state puts into the SerializedDOM
ScrollInfo(layout) ==
    LET visual == DictGet(layout, "visualViewport", EmptyDict)
        viewport == IF DOMAIN visual # {} THEN visual
                    ELSE DictGet(layout, "layoutViewport", EmptyDict)
    IN  IF DOMAIN layout = {} THEN <<>>
        ELSE [ x |-> DictGet(viewport, "pageX", 0),
               y |-> DictGet(viewport, "pageY", 0),
               width |-> DictGet(viewport, "clientWidth", 0),
               height |-> DictGet(viewport, "clientHeight", 0) ]

\* get_state from the three results of gather on
Fuse(snapshot, ax_tree, layout) ==
    LET tree == build_tree(snapshot, ax_tree, layout)
    IN  [ tree |-> tree,
          serialized |-> [serialize(tree) EXCEPT !.scroll_info = ScrollInfo(layout)] ]

(***************************************************************************)
(* DOMNode.stable_hash                                                     *)
(***************************************************************************)
dynamic_patterns ==
    { <<"f","o","c","u","s">>, <<"h","o","v","e","r">>, <<"a","c","t","i","v","e">>, <<"s","e","l","e","c","t","e","d">>, <<"d","i","s","a","b","l","e","d">>, <<"a","n","i","m","a","t","i","o","n">>,
      <<"t","r","a","n","s","i","t","i","o","n">>, <<"l","o","a","d","i","n","g">>, <<"o","p","e","n">>, <<"c","l","o","s","e","d">>, <<"e","x","p","a","n","d","e","d">>, <<"c","o","l","l","a","p","s","e","d">>,
      <<"v","i","s","i","b","l","e">>, <<"h","i","d","d","e","n">>, <<"p","r","e","s","s","e","d">>, <<"c","h","e","c","k","e","d">>, <<"h","i","g","h","l","i","g","h","t","e","d">>, <<"c","u","r","r","e","n","t">>,
      <<"e","n","t","e","r","i","n","g">>, <<"l","e","a","v","i","n","g">> }

\* str.split() with no argument, for strings whose only whitespace is the space
RECURSIVE Split(_)
Split(s) ==
    IF s = <<>> THEN <<>>
    ELSE IF Head(s) = " " THEN Split(Tail(s))
    ELSE LET word == SplitFirst(s, " ")
         IN  <<word>> \o Split(SubSeq(s, Len(word) + 1, Len(s)))

\* the characters of the model's strings in the order of their code points
CodePoints == <<" ","'","(",")",",","-","/","0","1","2","3","4","5","6","7","8","9",":",";","=","?","A","B","C","D","E","F","G","H","I","J","K","L","M","N","O","P","Q","R","S","T","U","V","W","X","Y","Z","[","]","a","b","c","d","e","f","g","h","i","j","k","l","m","n","o","p","q","r","s","t","u","v","w","x","y","z">>

Ord(c) == CHOOSE i \in DOMAIN CodePoints : CodePoints[i] = c

\* a < b on Python strings
RECURSIVE StrLess(_, _)
StrLess(a, b) ==
    IF b = <<>> THEN FALSE
    ELSE IF a = <<>> THEN TRUE
    ELSE IF Head(a) = Head(b) THEN StrLess(Tail(a), Tail(b))
    ELSE Ord(Head(a)) < Ord(Head(b))

\* sorted(list) for a list of strings
RECURSIVE Sorted(_)
Sorted(list) ==
    IF list = <<>> THEN <<>>
    ELSE LET rest == Sorted(Tail(list))
             before == SelectSeq(rest, LAMBDA s : StrLess(s, Head(list)))
             after == SelectSeq(rest, LAMBDA s : ~ StrLess(s, Head(list)))
         IN  before \o <<Head(list)>> \o after

\* mutant: no class counts as dynamic
IsDynamic_Never(c) == FALSE

\* any(pattern in c.lower() for pattern in dynamic_patterns)
IsDynamic(c) == \E pattern \in dynamic_patterns : Contains(pattern, Lower(c))

stable_class_str(node) ==
    LET class_str == Get(node.attributes, <<"c","l","a","s","s">>)
    IN  IF class_str # <<>>
        THEN Join(Sorted(SelectSeq(Split(class_str), LAMBDA c : ~ IsDynamic(c))), <<" ">>)
        ELSE <<>>

stable_attrs(node) ==
    [key \in DOMAIN node.attributes \ {<<"s","t","y","l","e">>} |->
        IF key = <<"c","l","a","s","s">> THEN stable_class_str(node) ELSE node.attributes[key]]

\* the keys of dict d in sorted order
RECURSIVE SortedKeys(_)
SortedKeys(d) ==
    IF DOMAIN d = {} THEN <<>>
    ELSE LET first == CHOOSE k \in DOMAIN d : \A o \in DOMAIN d \ {k} : StrLess(k, o)
         IN  <<first>> \o SortedKeys([k \in DOMAIN d \ {first} |-> d[k]])

\* repr() of a string without quotes or escapes, and str() of a tuple of
\* parts already converted
ReprStr(s) == <<"'">> \o s \o <<"'">>
ReprTuple(parts) ==
    IF parts = <<>> THEN <<"(",")">>
    ELSE IF Len(parts) = 1 THEN <<"(">> \o parts[1] \o <<",",")">>
    ELSE <<"(">> \o Join(parts, <<","," ">>) \o <<")">>

\* str(hash_components)
HashComponents(node) ==
    LET attrs == stable_attrs(node)
        keys == SortedKeys(attrs)
        items == [i \in DOMAIN keys |->
                    ReprTuple(<<ReprStr(keys[i]), ReprStr(attrs[keys[i]])>>)]
    IN  ReprTuple(<<ReprStr(node.node_name), ReprTuple(items), ReprStr(node.ax_role)>>)

\* the SHA-256 digest of text as an integer: the digest stands for the text
\* it was computed from, no two texts of the model sharing one
Sha256Int(text) == [sha256 |-> text]

stable_hash(node) == Sha256Int(HashComponents(node))

(***************************************************************************)
(* ActionResult (tools/registry.py)                                        *)
(***************************************************************************)
\* Optional[str]: None is the empty tuple, a string s is <<s>>
NoStr == <<>>
Some(s) == <<s>>

\* str(n) for an integer n
Str(n) == IF n < 0 THEN <<"-">> \o IntToStr(-n) ELSE IntToStr(n)

NoData == [k \in {} |-> <<>>]

Ok(message, data) ==
    [success |-> TRUE, message |-> message, error |-> NoStr, data |-> data]

Fail(error) ==
    [success |-> FALSE, message |-> <<>>, error |-> Some(error), data |-> NoData]

(***************************************************************************)
(* The browser, as the Element operations see it: every protocol command   *)
(* is answered or fails.                                                   *)
(***************************************************************************)
\* one protocol command: the method, the function that sent it, what it is
\* for (the event type, or the script it runs), and the point it carries
Cmd(m, by, what, x, y) == [m |-> m, by |-> by, what |-> what, x |-> x, y |-> y]

\* str(e) of an exception raised by a protocol command
ErrTexts == { <<"T","i","m","e","d"," ","o","u","t"," ","w","a","i","t","i","n","g"," ","f","o","r"," ","r","e","s","p","o","n","s","e">>, <<"N","o"," ","n","o","d","e"," ","w","i","t","h"," ","g","i","v","e","n"," ","i","d"," ","f","o","u","n","d">> }

\* the element's content box: below the fold until it is scrolled into view
ElementQuad(scrolled) ==
    IF scrolled THEN <<10, 40, 30, 40, 30, 50, 10, 50>>
    ELSE <<10, 300, 30, 300, 30, 310, 10, 310>>

\* Page.getLayoutMetrics' layoutViewport clientWidth and clientHeight
PageViewport == <<100, 100>>

\* click's fallback when Page.getLayoutMetrics fails
DefaultViewport == <<1920, 1080>>

(***************************************************************************)
(* Element._find_best_click_point                                          *)
(***************************************************************************)
MinOf(S) == CHOOSE m \in S : \A e \in S : m <= e
MaxOf(S) == CHOOSE m \in S : \A e \in S : m >= e

\* the quads' coordinates are multiples of 1/Unit of a pixel: whole pixels
\* where click measures the element, fractions where the function is applied
\* to quads of any kind
Unit == IF measured = None THEN 1 ELSE measured.unit

\* mutant: a quad of equal area replaces the best one
Better_OrEqual(visible_area, best_area) == visible_area >= best_area

\* if visible_area > best_area
Better(visible_area, best_area) == visible_area > best_area

\* the loop over quads: the quad with the largest visible area, <<>> for None;
\* vw and vh are in pixels, and int() cuts the area down to whole pixels
RECURSIVE BestQuadFrom(_, _, _, _, _, _)
BestQuadFrom(quads, i, vw, vh, best_quad, best_area) ==
    IF i > Len(quads) THEN best_quad
    ELSE LET quad == quads[i] IN
         IF Len(quad) < 8 THEN BestQuadFrom(quads, i + 1, vw, vh, best_quad, best_area)
         ELSE LET xs == {quad[1], quad[3], quad[5], quad[7]}
                  ys == {quad[2], quad[4], quad[6], quad[8]}
                  min_x == MinOf(xs)
                  max_x == MaxOf(xs)
                  min_y == MinOf(ys)
                  max_y == MaxOf(ys)
              IN  IF max_x < 0 \/ max_y < 0 \/ min_x > vw * Unit \/ min_y > vh * Unit
                  THEN BestQuadFrom(quads, i + 1, vw, vh, best_quad, best_area)
                  ELSE LET visible_area ==
                               ((MinOf({vw * Unit, max_x}) - MaxOf({0, min_x}))
                                * (MinOf({vh * Unit, max_y}) - MaxOf({0, min_y})))
                               \div (Unit * Unit)
                       IN  IF Better(visible_area, best_area)
                           THEN BestQuadFrom(quads, i + 1, vw, vh, quad, visible_area)
                           ELSE BestQuadFrom(quads, i + 1, vw, vh, best_quad, best_area)

RECURSIVE SumSeq(_)
SumSeq(s) == IF s = <<>> THEN 0 ELSE Head(s) + SumSeq(Tail(s))

\* mutant: the mean is not brought into the viewport
ClampedMean_Unclamped(total, n, hi) == total \div n

\* int(max(0, min(hi, total / n))) for integers total, n > 0 and hi
ClampedMean(total, n, hi) ==
    IF total > n * hi THEN MaxOf({0, hi})
    ELSE IF total < 0 THEN 0
    ELSE total \div n

find_best_click_point(quads, vw, vh) ==
    LET found == BestQuadFrom(quads, 1, vw, vh, <<>>, 0)
    IN  IF found = <<>> /\ (quads = <<>> \/ Len(quads[1]) < 8)
        THEN <<vw \div 2, vh \div 2>>
        ELSE LET best_quad == IF found = <<>> THEN quads[1] ELSE found
                 xs == [i \in 1..((Len(best_quad) + 1) \div 2) |-> best_quad[2 * i - 1]]
                 ys == [i \in 1..(Len(best_quad) \div 2) |-> best_quad[2 * i]]
             IN  << ClampedMean(SumSeq(xs), Len(xs) * Unit, vw - 1),
                    ClampedMean(SumSeq(ys), Len(ys) * Unit, vh - 1) >>

(***************************************************************************)
(* ToolRegistry.execute and with_retry                                     *)
(***************************************************************************)
DEFAULT_MAX_RETRIES == 2

\* the actions that take an element index
IndexActions == {"click", "type_text", "hover", "select_option", "focus"}

\* of those, the ones whose body runs inside with_retry
RetriedActions == {"click", "type_text", "hover"}

\* an action registered by the embedding program, as in tests/test_registry.py
CustomBehaviours ==
    {"return_ok", "return_fail", "return_str", "raise_ActionError", "raise_RuntimeError"}

LocInit ==
    [ viewport |-> <<>>, quads |-> <<>>, best |-> <<>>, best_after_scroll |-> FALSE,
      pointer_events |-> "unchecked", cq |-> "untried", bm |-> "untried", rect |-> "untried",
      requads |-> "untried",
      hit_target |-> "unchecked", moved |-> "unsent", pressed |-> "unsent",
      released |-> "unsent", js |-> "not_run",
      focus_dom |-> "untried", focus_js |-> "untried", clear |-> "not_run",
      step |-> 1 ]

ActIdle ==
    /\ pc = "idle"
    /\ session = TRUE
    /\ dom_state = None
    /\ call = None
    /\ attempt = 0
    /\ last_error = NoStr
    /\ sent = <<>>
    /\ queried = FALSE
    /\ loc = LocInit
    /\ page = [scrolled |-> FALSE]
    /\ stack = <<>>
    /\ outcome = None

\* no call of with_retry, get_state or _find_best_click_point is under way
RetryIdle == invoked = <<>>
StateIdle == cdp = None /\ results = <<>> /\ order = <<>>
PointIdle == measured = None /\ best_point = None
NodeIdle == subjects = <<>> /\ props = <<>>
BusIdle ==
    /\ handlers = <<>> /\ once_handlers = <<>> /\ registrations = 0
    /\ emitting = None /\ calls = <<>> /\ emits = 0
AgentIdle ==
    config = None /\ state = None /\ history = <<>> /\ run = None /\ saved = None
GuardIdle == allowed_domains = <<>> /\ loaded = <<>> /\ reply = None
TabIdle == browser = None /\ tab_reply = None /\ tab_calls = 0
NetIdle == watch = None /\ now = 0 /\ net = None
EmitIdle == frames = <<>> /\ times_called = <<>>
LateIdle == GuardIdle /\ TabIdle /\ NetIdle /\ EmitIdle
MoreIdle == NodeIdle /\ BusIdle /\ AgentIdle /\ LateIdle

\* the selector_map of a SerializedDOM with n elements
SelectorMapOf(n) ==
    [idx \in 0..(n - 1) |-> [backend_node_id |-> 11 + idx, tag |-> <<"B","U","T","T","O","N">>]]

ActInit ==
    /\ pc = "idle"
    /\ session \in BOOLEAN
    /\ dom_state \in {None} \cup {[selector_map |-> SelectorMapOf(n)] : n \in {0, MaxElems}}
    /\ call = None
    /\ attempt = 0
    /\ last_error = NoStr
    /\ sent = <<>>
    /\ queried = FALSE
    /\ loc = LocInit
    /\ page = [scrolled |-> FALSE]
    /\ stack = <<>>
    /\ outcome = None

\* execute returns result to its caller
Return(result) ==
    /\ outcome' = [kind |-> "return", result |-> result]
    /\ pc' = "done"

\* an exception leaves execute
Escape(exc) ==
    /\ outcome' = [kind |-> "raise", exc |-> exc]
    /\ pc' = "done"

\* mutant: only ActionError is caught
ExecuteCatch_OnlyActionError(exc) ==
    IF exc.cls = "ActionError" THEN Return(Fail(exc.msg)) ELSE Escape(exc)

\* the except clauses of execute around the call of the action
ExecuteCatch(exc) ==
    IF exc.cls = "ActionError" THEN Return(Fail(exc.msg))
    ELSE Return(Fail(<<"S","y","s","t","e","m"," ","e","r","r","o","r",":"," ">> \o exc.msg))

\* execute's handling of an ActionResult the action returned
ActionReturned(result) == Return(result)

\* the substrings with_retry looks for in a failure's error
retryable_errors ==
    { <<"n","o","t"," ","v","i","s","i","b","l","e">>, <<"f","a","i","l","e","d"," ","t","o"," ","r","e","s","o","l","v","e">>, <<"n","o"," ","g","e","o","m","e","t","r","y"," ","f","o","u","n","d">>, <<"t","i","m","e","d"," ","o","u","t">> }

\* error_msg = result.error or ""
ErrorMsg(result) == IF result.error = NoStr THEN <<>> ELSE result.error[1]

\* mutant: every returned failure is taken for a transient one
IsRetryable_Always(result) == TRUE

\* any(err in error_msg.lower() for err in retryable_errors)
IsRetryable(result) ==
    \E err \in retryable_errors : Contains(err, Lower(ErrorMsg(result)))

\* element_context of the with_retry call: the f-string the actions pass, or
\* the argument of a direct call
ElementContext ==
    IF "element_context" \in DOMAIN call THEN call.element_context
    ELSE <<"e","l","e","m","e","n","t"," ">> \o Str(call.index) \o <<" ","(">>
         \o dom_state.selector_map[call.index].tag \o <<")">>

\* max_retries of the with_retry call: the actions pass none
MaxRetries ==
    IF "max_retries" \in DOMAIN call THEN call.max_retries ELSE DEFAULT_MAX_RETRIES

\* mutant: the element context is left out
ErrorDetail_NoContext(last) ==
    <<"F","a","i","l","e","d"," ","a","f","t","e","r"," ">> \o Str(MaxRetries + 1) \o <<" ","a","t","t","e","m","p","t","s">>
    \o (IF last # NoStr /\ last[1] # <<>> THEN <<":"," ">> \o last[1] ELSE <<>>)

\* error_detail of with_retry once the attempts are used up
ErrorDetail(last) ==
    <<"F","a","i","l","e","d"," ","a","f","t","e","r"," ">> \o Str(MaxRetries + 1) \o <<" ","a","t","t","e","m","p","t","s">>
    \o (IF ElementContext # <<>> THEN <<" ","o","n"," ">> \o ElementContext ELSE <<>>)
    \o (IF last # NoStr /\ last[1] # <<>> THEN <<":"," ">> \o last[1] ELSE <<>>)

\* mutant: one attempt more
AttemptsLeft_OneMore == attempt <= MaxRetries

\* if attempt < max_retries
AttemptsLeft == attempt < MaxRetries

\* with_retry after the try statement of an attempt that left last_error = err
AttemptFailed(err) ==
    /\ last_error' = err
    /\ IF AttemptsLeft
       THEN /\ pc' = "with_retry.sleep"
            /\ UNCHANGED <<attempt, outcome>>
       ELSE /\ ActionReturned(Fail(ErrorDetail(err)))
            /\ UNCHANGED attempt

\* with_retry after action_fn returned result in the current attempt
RetryReturn(result) ==
    IF result.success \/ ~ IsRetryable(result)
    THEN /\ ActionReturned(result)
         /\ UNCHANGED <<attempt, last_error>>
    ELSE AttemptFailed(result.error)

\* with_retry after action_fn raised an Exception e with str(e) = msg
RetryRaise(msg) == AttemptFailed(Some(msg))

\* the text each action puts before str(e) when its body raises
FailPrefix(name) ==
    CASE name = "click" -> <<"C","l","i","c","k"," ","f","a","i","l","e","d",":"," ">>
      [] name = "type_text" -> <<"T","y","p","e"," ","f","a","i","l","e","d",":"," ">>
      [] name = "hover" -> <<"H","o","v","e","r"," ","f","a","i","l","e","d",":"," ">>
      [] name = "select_option" -> <<"S","e","l","e","c","t"," ","o","p","t","i","o","n"," ","f","a","i","l","e","d",":"," ">>
      [] name = "focus" -> <<"F","o","c","u","s"," ","f","a","i","l","e","d",":"," ">>

\* the body of the action returned result: to with_retry, or to execute
BodyReturn(result) ==
    IF call.name \in RetriedActions THEN RetryReturn(result)
    ELSE /\ ActionReturned(result)
         /\ UNCHANGED <<attempt, last_error>>

\* an exception with text msg reaches the try/except of the action's body
BodyRaise(msg) == BodyReturn(Fail(FailPrefix(call.name) \o msg))

\* the first protocol command of each action's body
BodyEntry(name) ==
    CASE name = "click" -> "click.pe.resolve"
      [] name = "type_text" -> "fill.scroll"
      [] name = "hover" -> "scroll_into_view.resolve"
      [] name = "select_option" -> "scroll_into_view.resolve"
      [] name = "focus" -> "scroll_into_view.resolve"
      [] name = "with_retry" -> "action_fn"

\* where the action's body continues after its first call returns
BodyStack(name) ==
    CASE name = "click" -> <<>>
      [] name = "type_text" -> <<>>
      [] name = "hover" -> <<"hover.box">>
      [] name = "select_option" -> <<"select_option.resolve">>
      [] name = "focus" -> <<"focus.describe">>
      [] name = "with_retry" -> <<>>

\* mutant: the index is not checked against the selector_map
IndexValid_Unchecked(index, selector_map) == TRUE

\* the test  index in dom_state.selector_map  that opens each index action
IndexValid(index, selector_map) == index \in DOMAIN selector_map

\* execute(name, params), up to the first protocol command of the action
Execute(name, params) ==
    /\ pc = "idle"
    /\ call' = params
    /\ UNCHANGED <<session, dom_state, attempt, last_error, sent, queried, loc, page>>
    /\ UNCHANGED <<domVars, retryVars, stateVars, pointVars, moreVars>>
    /\ IF name = "unknown"
       THEN Return(Fail(<<"U","n","k","n","o","w","n"," ","a","c","t","i","o","n",":"," ","u","n","k","n","o","w","n">>)) /\ UNCHANGED stack
       ELSE IF ~ params.valid
       THEN Return(Fail(<<"I","n","v","a","l","i","d"," ","p","a","r","a","m","e","t","e","r","s",":"," ","v","a","l","i","d","a","t","i","o","n"," ","e","r","r","o","r">>)) /\ UNCHANGED stack
       ELSE IF name \in IndexActions /\ ~ session
       THEN Return(Fail(<<"B","r","o","w","s","e","r"," ","s","e","s","s","i","o","n"," ","n","o","t"," ","i","n","i","t","i","a","l","i","z","e","d"," ","i","n"," ","c","o","n","t","e","x","t">>))
            /\ UNCHANGED stack
       ELSE IF name = "custom"
       THEN /\ UNCHANGED stack
            /\ CASE params.behaviour = "return_ok" ->
                        ActionReturned(Ok(<<"7">>, NoData))
                 [] params.behaviour = "return_fail" ->
                        ActionReturned(Fail(<<"n","o","t","h","i","n","g"," ","t","o"," ","d","o">>))
                 [] params.behaviour = "return_str" ->
                        Return(Ok(<<"r","a","w"," ","s","t","r","i","n","g">>, NoData))
                 [] params.behaviour = "raise_ActionError" ->
                        ExecuteCatch([cls |-> "ActionError",
                                      msg |-> <<"i","n","t","e","n","t","i","o","n","a","l"," ","a","c","t","i","o","n"," ","f","a","i","l","u","r","e">>])
                 [] params.behaviour = "raise_RuntimeError" ->
                        ExecuteCatch([cls |-> "RuntimeError", msg |-> <<"b","o","o","m">>])
       ELSE IF dom_state = None
       THEN /\ UNCHANGED stack
            /\ ExecuteCatch([cls |-> "AttributeError",
                             msg |-> <<"'","N","o","n","e","T","y","p","e","'"," ","o","b","j","e","c","t"," ","h","a","s"," ","n","o"," ","a","t","t","r","i","b","u","t","e"," ","'","s","e","l","e","c","t","o","r","_","m","a","p","'">>])
       ELSE IF ~ IndexValid(params.index, dom_state.selector_map)
       THEN /\ UNCHANGED stack
            /\ ActionReturned(Fail(<<"I","n","v","a","l","i","d"," ","e","l","e","m","e","n","t"," ","i","n","d","e","x",":"," ">> \o Str(params.index)))
       ELSE IF params.index \notin DOMAIN dom_state.selector_map
       THEN \* element_info = dom_state.selector_map[index] raises KeyError
            /\ UNCHANGED stack
            /\ ExecuteCatch([cls |-> "KeyError", msg |-> Str(params.index)])
       ELSE /\ pc' = BodyEntry(name)
            /\ stack' = BodyStack(name)
            /\ UNCHANGED outcome

\* the requests execute is given
Requests ==
    [ name : IndexActions \ {"type_text"}, index : -1..MaxElems, valid : BOOLEAN,
      behaviour : {"none"}, text : {<<>>}, clear : {TRUE} ]
    \cup [ name : {"type_text"}, index : -1..MaxElems, valid : BOOLEAN,
           behaviour : {"none"}, text : {<<"h","i">>}, clear : BOOLEAN ]
    \cup [ name : {"unknown"}, index : {0}, valid : {TRUE}, behaviour : {"none"},
           text : {<<>>}, clear : {TRUE} ]
    \cup [ name : {"custom"}, index : {0}, valid : BOOLEAN, behaviour : CustomBehaviours,
           text : {<<>>}, clear : {TRUE} ]

ExecuteAny == \E r \in Requests : Execute(r.name, r)

\* with_retry's sleep between two attempts, then the next attempt begins
RetrySleep ==
    /\ pc = "with_retry.sleep"
    /\ attempt' = attempt + 1
    /\ pc' = BodyEntry(call.name)
    /\ stack' = BodyStack(call.name)
    /\ sent' = <<>>
    /\ queried' = FALSE
    /\ loc' = LocInit
    /\ UNCHANGED <<session, dom_state, call, last_error, page, outcome>>
    /\ UNCHANGED <<domVars, retryVars, stateVars, pointVars, moreVars>>

(***************************************************************************)
(* Element operations (browser/element.py).  One step per protocol command:*)
(* the step sends the command and takes the browser's answer.              *)
(***************************************************************************)
Frame == UNCHANGED <<session, dom_state, call>> /\ UNCHANGED <<domVars, retryVars, stateVars, pointVars, moreVars>>

Goto(label) == pc' = label /\ UNCHANGED <<attempt, last_error, outcome>>

\* a command that acts on the page is sent
Send(cmd) == sent' = Append(sent, cmd) /\ UNCHANGED queried

\* a command that only reads from the page is sent
Ask(cmd) == queried' = TRUE /\ UNCHANGED sent

BackendId == dom_state.selector_map[call.index].backend_node_id

\* element_info of the action in progress
ElementInfo == dom_state.selector_map[call.index]

\* text[:20] followed by ... when text is longer
TextPreview(text) ==
    SubSeq(text, 1, Min(20, Len(text))) \o (IF Len(text) > 20 THEN <<".",".",".">> ELSE <<>>)

\* what the action returns when its body ran to the end
BodyOk ==
    CASE call.name = "click" ->
            Ok(<<"C","l","i","c","k","e","d"," ","e","l","e","m","e","n","t"," ">> \o Str(call.index), [element |-> ElementInfo])
      [] call.name = "type_text" ->
            Ok(<<"T","y","p","e","d"," ","'">> \o TextPreview(call.text) \o <<"'"," ","i","n","t","o"," ","e","l","e","m","e","n","t"," ">>
               \o Str(call.index),
               [element |-> ElementInfo, text |-> call.text])
      [] call.name = "hover" ->
            Ok(<<"H","o","v","e","r","e","d"," ","e","l","e","m","e","n","t"," ">> \o Str(call.index), NoData)
      [] call.name = "focus" ->
            Ok(<<"F","o","c","u","s","e","d"," ","e","l","e","m","e","n","t"," ">> \o Str(call.index), NoData)

\* an Element operation returns to the operation that awaited it; when none
\* did, the body of the action has run to its end and returns result
OpReturnWith(result) ==
    IF stack = <<>>
    THEN BodyReturn(result) /\ UNCHANGED stack
    ELSE Goto(Head(stack)) /\ stack' = Tail(stack)

OpReturn == OpReturnWith(BodyOk)

\* an exception with text msg leaves every Element operation in progress
OpRaise(msg) == BodyRaise(msg) /\ stack' = <<>>

\* click's locals end with the call, _focus_robust's stay
EndOfClick(l) ==
    [LocInit EXCEPT !.focus_dom = l.focus_dom, !.focus_js = l.focus_js]

\* click returns with the locals l: to _focus_robust, or as the action's body,
\* and then l stays for the result to be compared with it
ClickReturns(l) ==
    /\ loc' = IF stack = <<>> THEN l ELSE EndOfClick(l)
    /\ OpReturn

\* ---- Element._js_click -------------------------------------------------
JsClickResolve ==
    /\ pc = "js_click.resolve"
    /\ Ask(Cmd("DOM.resolveNode", "_js_click", "", 0, 0))
    /\ Frame /\ UNCHANGED page
    /\ \/ Goto("js_click.call") /\ UNCHANGED <<loc, stack>>
       \/ /\ loc' = [loc EXCEPT !.js = "failed"]
          /\ OpRaise(<<"C","a","n","n","o","t"," ","c","l","i","c","k"," ","e","l","e","m","e","n","t"," ">> \o Str(BackendId)
                     \o <<":"," ","f","a","i","l","e","d"," ","t","o"," ","r","e","s","o","l","v","e"," ","n","o","d","e">>)
       \/ \E e \in ErrTexts :
            /\ loc' = [loc EXCEPT !.js = "failed"]
            /\ OpRaise(e)

JsClickCall ==
    /\ pc = "js_click.call"
    /\ Send(Cmd("Runtime.callFunctionOn", "_js_click", "this.click()", 0, 0))
    /\ Frame /\ UNCHANGED page
    /\ \/ ClickReturns([loc EXCEPT !.js = "ok"])
       \/ \E e \in ErrTexts :
            /\ loc' = [loc EXCEPT !.js = "failed"]
            /\ OpRaise(e)

\* ---- Element._check_pointer_events -------------------------------------
\* mutant: the computed style is not looked at
PointerEventsOk_Ignored(value) == TRUE

\* the return value of _check_pointer_events for a computed pointer-events
PointerEventsOk(value) == value # "none"

ClickPointerEventsResolve ==
    /\ pc = "click.pe.resolve"
    /\ Ask(Cmd("DOM.resolveNode", "_check_pointer_events", "", 0, 0))
    /\ Frame /\ UNCHANGED <<page, stack>>
    /\ \/ Goto("click.pe.style") /\ UNCHANGED loc
       \/ \E failure \in {"no_object", "raise"} :
            /\ loc' = [loc EXCEPT !.pointer_events = "auto"]
            /\ Goto("click.layout")

ClickPointerEventsStyle ==
    /\ pc = "click.pe.style"
    /\ Ask(Cmd("Runtime.callFunctionOn", "_check_pointer_events",
                "getComputedStyle(this).pointerEvents", 0, 0))
    /\ Frame /\ UNCHANGED <<page, stack>>
    /\ \/ \E value \in {"auto", "none"} :
            /\ loc' = [loc EXCEPT !.pointer_events = value]
            /\ IF PointerEventsOk(value) THEN Goto("click.layout")
               ELSE Goto("js_click.resolve")
       \/ /\ loc' = [loc EXCEPT !.pointer_events = "auto"]
          /\ Goto("click.layout")

\* ---- Element.click: viewport and geometry ------------------------------
ClickLayoutMetrics ==
    /\ pc = "click.layout"
    /\ Ask(Cmd("Page.getLayoutMetrics", "click", "", 0, 0))
    /\ Frame /\ UNCHANGED <<page, stack>>
    /\ \E viewport \in {PageViewport, DefaultViewport} :
            loc' = [loc EXCEPT !.viewport = viewport]
    /\ Goto("click.content_quads")

\* click found geometry: it computes the click point and goes on to scroll
WithQuads(l, quads, after_scroll) ==
    [l EXCEPT !.quads = quads,
              !.best = find_best_click_point(quads, l.viewport[1], l.viewport[2]),
              !.best_after_scroll = after_scroll]

\* mutant: the box model is asked for whatever content-quads gave
NeedBoxModel_Always(quads) == TRUE

\* the test  if not quads  before Method 2
NeedBoxModel(quads) == quads = <<>>

\* the test  if not quads  before Method 3
NeedScriptRect(quads) == quads = <<>>

\* mutant: without geometry click returns without clicking
NoGeometryTarget_Return == "click.return"

\* the test  if not quads  before Method 4: where click goes without geometry
NoGeometryTarget == "js_click.resolve"

\* after Method 1 .. Method 3 left quads in l
AfterContentQuads(l) ==
    IF NeedBoxModel(l.quads) THEN "click.box_model"
    ELSE IF NeedScriptRect(l.quads) THEN "click.rect.resolve"
    ELSE IF l.quads = <<>> THEN NoGeometryTarget ELSE "click.scroll"

AfterBoxModel(l) ==
    IF NeedScriptRect(l.quads) THEN "click.rect.resolve"
    ELSE IF l.quads = <<>> THEN NoGeometryTarget ELSE "click.scroll"

AfterScriptRect(l) ==
    IF l.quads = <<>> THEN NoGeometryTarget ELSE "click.scroll"

ClickContentQuads ==
    /\ pc = "click.content_quads"
    /\ Ask(Cmd("DOM.getContentQuads", "click", "", 0, 0))
    /\ Frame /\ UNCHANGED <<page, stack>>
    /\ \E l \in { WithQuads([loc EXCEPT !.cq = "found"],
                            <<ElementQuad(page.scrolled)>>, FALSE),
                  [loc EXCEPT !.cq = "none"] } :
            /\ loc' = l
            /\ Goto(AfterContentQuads(l))

ClickBoxModel ==
    /\ pc = "click.box_model"
    /\ Ask(Cmd("DOM.getBoxModel", "click", "", 0, 0))
    /\ Frame /\ UNCHANGED <<page, stack>>
    /\ \E l \in { WithQuads([loc EXCEPT !.bm = "found"],
                            <<ElementQuad(page.scrolled)>>, FALSE),
                  [loc EXCEPT !.bm = "none"] } :
            /\ loc' = l
            /\ Goto(AfterBoxModel(l))

ClickRectResolve ==
    /\ pc = "click.rect.resolve"
    /\ Ask(Cmd("DOM.resolveNode", "click", "", 0, 0))
    /\ Frame /\ UNCHANGED <<page, stack>>
    /\ \/ Goto("click.rect.call") /\ UNCHANGED loc
       \/ \E l \in { [loc EXCEPT !.rect = "none"] } :
            /\ loc' = l
            /\ Goto(AfterScriptRect(l))

ClickRectCall ==
    /\ pc = "click.rect.call"
    /\ Ask(Cmd("Runtime.callFunctionOn", "click", "getBoundingClientRect()", 0, 0))
    /\ Frame /\ UNCHANGED <<page, stack>>
    /\ \E l \in { WithQuads([loc EXCEPT !.rect = "found"],
                            <<ElementQuad(page.scrolled)>>, FALSE),
                  [loc EXCEPT !.rect = "none"] } :
            /\ loc' = l
            /\ Goto(AfterScriptRect(l))

\* ---- Element.click: scroll, re-measure, verify -------------------------
\* the answers of the geometry strategies are on record until click scrolls
GeometryDone(l) == [l EXCEPT !.cq = "untried", !.bm = "untried", !.rect = "untried"]

ClickScroll ==
    /\ pc = "click.scroll"
    /\ Send(Cmd("DOM.scrollIntoViewIfNeeded", "click", "", 0, 0))
    /\ Frame
    /\ loc' = GeometryDone(loc)
    /\ \/ /\ page' = [page EXCEPT !.scrolled = TRUE]
          /\ Goto("click.requads")
          /\ UNCHANGED stack
       \/ /\ UNCHANGED page
          /\ Goto("scroll_into_view.resolve")
          /\ stack' = <<"click.requads">> \o stack

\* Element.scroll_into_view
ScrollIntoViewResolve ==
    /\ pc = "scroll_into_view.resolve"
    /\ Ask(Cmd("DOM.resolveNode", "scroll_into_view", "", 0, 0))
    /\ Frame /\ UNCHANGED <<loc, page>>
    /\ \/ Goto("scroll_into_view.call") /\ UNCHANGED stack
       \/ OpReturn
       \/ \E e \in ErrTexts : OpRaise(e)

ScrollIntoViewCall ==
    /\ pc = "scroll_into_view.call"
    /\ Send(Cmd("Runtime.callFunctionOn", "scroll_into_view", "this.scrollIntoView()",
                0, 0))
    /\ Frame /\ UNCHANGED loc
    /\ \/ page' = [page EXCEPT !.scrolled = TRUE] /\ OpReturn
       \/ UNCHANGED page /\ \E e \in ErrTexts : OpRaise(e)

\* mutant: the click point is not computed again after the scroll
Remeasured_Never(l, quads) == l

\* the locals after the second getContentQuads answered with quads
Remeasured(l, quads) == IF quads # <<>> THEN WithQuads(l, quads, TRUE) ELSE l

\* viewport_width and viewport_height are not read after the second measure
ViewportDone(l) == [l EXCEPT !.viewport = <<>>]

ClickRequads ==
    /\ pc = "click.requads"
    /\ Ask(Cmd("DOM.getContentQuads", "click", "after scroll", 0, 0))
    /\ Frame /\ UNCHANGED <<page, stack>>
    /\ \/ loc' = ViewportDone(Remeasured([loc EXCEPT !.requads = "found"],
                                          <<ElementQuad(page.scrolled)>>))
       \/ loc' = ViewportDone(Remeasured([loc EXCEPT !.requads = "none"], <<>>))
       \/ loc' = ViewportDone([loc EXCEPT !.requads = "none"])
    /\ Goto("click.verify.resolve")

\* mutant: an intercepted click is dispatched all the same
HitTargetOk_Always(value) == TRUE

\* value.get("ok", True) of the hit-test script's answer
HitTargetOk(value) == IF "ok" \in DOMAIN value THEN value.ok ELSE TRUE

ClickVerifyResolve ==
    /\ pc = "click.verify.resolve"
    /\ Ask(Cmd("DOM.resolveNode", "_verify_hit_target", "", 0, 0))
    /\ Frame /\ UNCHANGED <<page, stack>>
    /\ \/ Goto("click.verify.call") /\ UNCHANGED loc
       \/ \E failure \in {"no_object", "raise"} :
            /\ loc' = [loc EXCEPT !.hit_target = "ok"]
            /\ Goto("dispatch.moved")

ClickVerifyCall ==
    /\ pc = "click.verify.call"
    /\ Ask(Cmd("Runtime.callFunctionOn", "_verify_hit_target",
                "document.elementFromPoint(x, y)", loc.best[1], loc.best[2]))
    /\ Frame /\ UNCHANGED <<page, stack>>
    /\ \/ \E value \in { [ok |-> TRUE, interceptor |-> ""],
                         [ok |-> FALSE, interceptor |-> "div#overlay"],
                         [ok |-> FALSE, interceptor |-> "no element at point"],
                         [interceptor |-> ""] } :
            /\ loc' = [loc EXCEPT !.hit_target =
                          IF "ok" \in DOMAIN value /\ ~ value.ok
                          THEN "intercepted" ELSE "ok"]
            /\ IF HitTargetOk(value) THEN Goto("dispatch.moved")
               ELSE Goto("js_click.resolve")
       \/ /\ loc' = [loc EXCEPT !.hit_target = "ok"]
          /\ Goto("dispatch.moved")

\* ---- Element._dispatch_click -------------------------------------------
MouseEvent(type) ==
    Cmd("Input.dispatchMouseEvent", "_dispatch_click", type, loc.best[1], loc.best[2])

\* mutant: a dispatch timeout takes the scripted-click fallback
TimeoutSwallowed_Never(type) == FALSE

\* the dispatches whose TimeoutError _dispatch_click catches and logs
TimeoutSwallowed(type) == type \in {"mousePressed", "mouseReleased"}

\* click's  except Exception  around _dispatch_click
DispatchErrorTarget == "js_click.resolve"

\* where _dispatch_click and click go after one dispatch answered how
AfterDispatch(type, how) ==
    IF how = "ok" \/ (how = "timeout" /\ TimeoutSwallowed(type))
    THEN CASE type = "mouseMoved" -> "dispatch.pressed"
           [] type = "mousePressed" -> "dispatch.released"
           [] type = "mouseReleased" -> "click.return"
    ELSE DispatchErrorTarget

DispatchMoved ==
    /\ pc = "dispatch.moved"
    /\ Send(MouseEvent("mouseMoved"))
    /\ Frame /\ UNCHANGED <<page, stack>>
    /\ \E how \in {"ok", "raised"} :
            /\ loc' = [loc EXCEPT !.moved = how]
            /\ Goto(AfterDispatch("mouseMoved", how))

DispatchPressed ==
    /\ pc = "dispatch.pressed"
    /\ Send(MouseEvent("mousePressed"))
    /\ Frame /\ UNCHANGED <<page, stack>>
    /\ \E how \in {"ok", "timeout", "raised"} :
            /\ loc' = [loc EXCEPT !.pressed = how]
            /\ Goto(AfterDispatch("mousePressed", how))

DispatchReleased ==
    /\ pc = "dispatch.released"
    /\ Send(MouseEvent("mouseReleased"))
    /\ Frame /\ UNCHANGED <<page, stack>>
    /\ \E how \in {"ok", "timeout", "raised"} :
            /\ loc' = [loc EXCEPT !.released = how]
            /\ Goto(AfterDispatch("mouseReleased", how))

\* click returns after the physical click
ClickReturn ==
    /\ pc = "click.return"
    /\ Frame /\ UNCHANGED <<sent, queried, page>>
    /\ ClickReturns(loc)

\* ---- Element.get_bounding_box and Element.hover ------------------------
\* mutant: the top left corner of the box
BoxCenter_Corner(content) ==
    << MinOf({content[1], content[3], content[5], content[7]}),
       MinOf({content[2], content[4], content[6], content[8]}) >>

\* (int(bbox.center_x), int(bbox.center_y)) of the box around content
BoxCenter(content) ==
    LET xs == {content[1], content[3], content[5], content[7]}
        ys == {content[2], content[4], content[6], content[8]}
    IN  << (2 * MinOf(xs) + (MaxOf(xs) - MinOf(xs))) \div 2,
           (2 * MinOf(ys) + (MaxOf(ys) - MinOf(ys))) \div 2 >>

HoverBox ==
    /\ pc = "hover.box"
    /\ Ask(Cmd("DOM.getBoxModel", "get_bounding_box", "", 0, 0))
    /\ Frame /\ UNCHANGED page
    /\ \/ /\ loc' = [loc EXCEPT !.best = BoxCenter(ElementQuad(page.scrolled))]
          /\ Goto("hover.move")
          /\ UNCHANGED stack
       \/ /\ UNCHANGED loc
          /\ OpRaise(<<"E","l","e","m","e","n","t"," ">> \o Str(BackendId) \o <<" ","n","o","t"," ","v","i","s","i","b","l","e">>)

HoverMove ==
    /\ pc = "hover.move"
    /\ Send(Cmd("Input.dispatchMouseEvent", "hover", "mouseMoved",
                loc.best[1], loc.best[2]))
    /\ Frame /\ UNCHANGED <<loc, page>>
    /\ \/ OpReturn
       \/ \E e \in ErrTexts : OpRaise(e)

\* ---- Element.focus -----------------------------------------------------
FocusDescribe ==
    /\ pc = "focus.describe"
    /\ Ask(Cmd("DOM.describeNode", "focus", "", 0, 0))
    /\ Frame /\ UNCHANGED <<loc, page>>
    /\ \/ \E node_id \in {"nodeId", "backendNodeId"} :
            Goto("focus.dom") /\ UNCHANGED stack
       \/ \E e \in ErrTexts : OpRaise(e)

\* mutant: a failure of DOM.focus leaves focus at once
FocusDom_NoFallback ==
    /\ pc = "focus.dom"
    /\ Send(Cmd("DOM.focus", "focus", "", 0, 0))
    /\ Frame /\ UNCHANGED page
    /\ \/ loc' = [loc EXCEPT !.focus_dom = "ok"] /\ OpReturn
       \/ \E e \in ErrTexts :
            /\ loc' = [loc EXCEPT !.focus_dom = "failed"]
            /\ OpRaise(e)

FocusDom ==
    /\ pc = "focus.dom"
    /\ Send(Cmd("DOM.focus", "focus", "", 0, 0))
    /\ Frame /\ UNCHANGED page
    /\ \/ loc' = [loc EXCEPT !.focus_dom = "ok"] /\ OpReturn
       \/ /\ loc' = [loc EXCEPT !.focus_dom = "failed"]
          /\ Goto("focus.js.resolve")
          /\ UNCHANGED stack

FocusJsResolve ==
    /\ pc = "focus.js.resolve"
    /\ Ask(Cmd("DOM.resolveNode", "focus", "", 0, 0))
    /\ Frame /\ UNCHANGED page
    /\ \/ Goto("focus.js.call") /\ UNCHANGED <<loc, stack>>
       \/ /\ loc' = [loc EXCEPT !.focus_js = "failed"]
          /\ OpRaise(<<"C","o","u","l","d"," ","n","o","t"," ","f","o","c","u","s"," ","e","l","e","m","e","n","t"," ">> \o Str(BackendId))
       \/ \E e \in ErrTexts :
            /\ loc' = [loc EXCEPT !.focus_js = "failed"]
            /\ OpRaise(e)

FocusJsCall ==
    /\ pc = "focus.js.call"
    /\ Send(Cmd("Runtime.callFunctionOn", "focus", "this.focus()", 0, 0))
    /\ Frame /\ UNCHANGED page
    /\ \/ loc' = [loc EXCEPT !.focus_js = "ok"] /\ OpReturn
       \/ \E e \in ErrTexts :
            /\ loc' = [loc EXCEPT !.focus_js = "failed"]
            /\ OpRaise(e)

\* ---- Element.select_option ---------------------------------------------
SelectOptionResolve ==
    /\ pc = "select_option.resolve"
    /\ Ask(Cmd("DOM.resolveNode", "select_option", "", 0, 0))
    /\ Frame /\ UNCHANGED <<loc, page>>
    /\ \/ Goto("select_option.call") /\ UNCHANGED stack
       \/ OpRaise(<<"C","o","u","l","d"," ","n","o","t"," ","r","e","s","o","l","v","e"," ","e","l","e","m","e","n","t"," ">> \o Str(BackendId))
       \/ \E e \in ErrTexts : OpRaise(e)

SelectOptionCall ==
    /\ pc = "select_option.call"
    /\ Send(Cmd("Runtime.callFunctionOn", "select_option", "opt.selected = true", 0, 0))
    /\ Frame /\ UNCHANGED <<loc, page>>
    /\ \/ \E selected_text \in {<<"O","n","e">>, <<>>} :
            OpReturnWith(Ok(<<"S","e","l","e","c","t","e","d"," ","'">> \o selected_text \o <<"'"," ","f","r","o","m"," ","d","r","o","p","d","o","w","n"," ">>
                            \o Str(call.index), NoData))
       \/ \E details \in {<<"E","r","r","o","r",":"," ","O","p","t","i","o","n"," ","n","o","t"," ","f","o","u","n","d",":"," ","o","n","e">>,
                          <<"E","r","r","o","r",":"," ","N","o","t"," ","a"," ","s","e","l","e","c","t"," ","e","l","e","m","e","n","t">>} :
            OpRaise(<<"S","e","l","e","c","t","i","o","n"," ","f","a","i","l","e","d",":"," ">> \o details)
       \/ \E e \in ErrTexts : OpRaise(e)

\* ---- Element.fill ------------------------------------------------------
\* fill, _focus_robust and _clear_field_robust call the next stage: the
\* record of the commands sent starts again
StageBegins == sent' = <<>> /\ UNCHANGED queried

FillScroll ==
    /\ pc = "fill.scroll"
    /\ Send(Cmd("DOM.scrollIntoViewIfNeeded", "fill", "", 0, 0))
    /\ Frame /\ UNCHANGED loc
    /\ \/ /\ page' = [page EXCEPT !.scrolled = TRUE]
          /\ Goto("fill.focus")
          /\ UNCHANGED stack
       \/ /\ UNCHANGED page
          /\ Goto("scroll_into_view.resolve")
          /\ stack' = <<"fill.focus">> \o stack

\* await self._focus_robust()
FillFocus ==
    /\ pc = "fill.focus"
    /\ StageBegins
    /\ Frame /\ UNCHANGED <<loc, page, stack>>
    /\ Goto("fill.focus.dom")

FillFocusDom ==
    /\ pc = "fill.focus.dom"
    /\ Send(Cmd("DOM.focus", "_focus_robust", "", 0, 0))
    /\ Frame /\ UNCHANGED <<page, stack>>
    /\ \/ /\ loc' = [loc EXCEPT !.focus_dom = "ok"]
          /\ Goto("fill.clear")
       \/ /\ loc' = [loc EXCEPT !.focus_dom = "failed"]
          /\ Goto("fill.focus.js.resolve")

FillFocusJsResolve ==
    /\ pc = "fill.focus.js.resolve"
    /\ Ask(Cmd("DOM.resolveNode", "_focus_robust", "", 0, 0))
    /\ Frame /\ UNCHANGED <<page, stack>>
    /\ \/ Goto("fill.focus.js.call") /\ UNCHANGED loc
       \/ /\ loc' = [loc EXCEPT !.focus_js = "failed"]
          /\ Goto("fill.focus.click")

FillFocusJsCall ==
    /\ pc = "fill.focus.js.call"
    /\ Send(Cmd("Runtime.callFunctionOn", "_focus_robust", "this.focus()", 0, 0))
    /\ Frame /\ UNCHANGED <<page, stack>>
    /\ \/ /\ loc' = [loc EXCEPT !.focus_js = "ok"]
          /\ Goto("fill.clear")
       \/ /\ loc' = [loc EXCEPT !.focus_js = "failed"]
          /\ Goto("fill.focus.click")

\* the third strategy of _focus_robust: await self.click()
FillFocusClick ==
    /\ pc = "fill.focus.click"
    /\ StageBegins
    /\ Frame /\ UNCHANGED <<loc, page>>
    /\ Goto("click.pe.resolve")
    /\ stack' = <<"fill.clear">> \o stack

\* mutant: the field is cleared whether or not clear was asked for
FillClear_Always ==
    /\ pc = "fill.clear"
    /\ StageBegins
    /\ Frame /\ UNCHANGED <<loc, page, stack>>
    /\ Goto("fill.clear.keyboard")

\* if clear: await self._clear_field_robust()
FillClear ==
    /\ pc = "fill.clear"
    /\ StageBegins
    /\ Frame /\ UNCHANGED <<loc, page, stack>>
    /\ IF call.clear THEN Goto("fill.clear.keyboard") ELSE Goto("fill.insert")

\* _clear_field_keyboard: select all, then Backspace
KeyboardClear ==
    << Cmd("Input.dispatchKeyEvent", "_clear_field_keyboard", "keyDown a", 0, 0),
       Cmd("Input.dispatchKeyEvent", "_clear_field_keyboard", "keyUp a", 0, 0),
       Cmd("Input.dispatchKeyEvent", "_clear_field_keyboard", "keyDown Backspace", 0, 0),
       Cmd("Input.dispatchKeyEvent", "_clear_field_keyboard", "keyUp Backspace", 0, 0) >>

\* strategy 2 of _clear_field_robust at the point <<x, y>>
TripleClickClear(x, y) ==
    << Cmd("Input.dispatchMouseEvent", "_clear_field_robust", "mousePressed", x, y),
       Cmd("Input.dispatchMouseEvent", "_clear_field_robust", "mouseReleased", x, y),
       Cmd("Input.dispatchKeyEvent", "_clear_field_robust", "keyDown Delete", 0, 0),
       Cmd("Input.dispatchKeyEvent", "_clear_field_robust", "keyUp Delete", 0, 0) >>

FillClearKeyboard ==
    /\ pc = "fill.clear.keyboard"
    /\ Send(KeyboardClear[loc.step])
    /\ Frame /\ UNCHANGED <<page, stack>>
    /\ \/ IF loc.step < Len(KeyboardClear)
          THEN loc' = [loc EXCEPT !.step = @ + 1] /\ Goto("fill.clear.keyboard")
          ELSE loc' = [loc EXCEPT !.step = 1, !.clear = "keyboard"]
               /\ Goto("fill.insert")
       \/ /\ loc' = [loc EXCEPT !.step = 1]
          /\ Goto("fill.clear.box")

FillClearBox ==
    /\ pc = "fill.clear.box"
    /\ Ask(Cmd("DOM.getBoxModel", "get_bounding_box", "", 0, 0))
    /\ Frame /\ UNCHANGED <<page, stack>>
    /\ \/ /\ loc' = [loc EXCEPT !.best = BoxCenter(ElementQuad(page.scrolled))]
          /\ Goto("fill.clear.triple_click")
       \/ /\ UNCHANGED loc
          /\ Goto("fill.clear.js.resolve")

FillClearTripleClick ==
    /\ pc = "fill.clear.triple_click"
    /\ Send(TripleClickClear(loc.best[1], loc.best[2])[loc.step])
    /\ Frame /\ UNCHANGED <<page, stack>>
    /\ \/ IF loc.step < Len(TripleClickClear(0, 0))
          THEN loc' = [loc EXCEPT !.step = @ + 1] /\ Goto("fill.clear.triple_click")
          ELSE loc' = [loc EXCEPT !.step = 1, !.clear = "triple_click"]
               /\ Goto("fill.insert")
       \/ /\ loc' = [loc EXCEPT !.step = 1]
          /\ Goto("fill.clear.js.resolve")

FillClearJsResolve ==
    /\ pc = "fill.clear.js.resolve"
    /\ Ask(Cmd("DOM.resolveNode", "_clear_field_robust", "", 0, 0))
    /\ Frame /\ UNCHANGED <<page, stack>>
    /\ \/ Goto("fill.clear.js.call") /\ UNCHANGED loc
       \/ /\ loc' = [loc EXCEPT !.clear = "failed"]
          /\ Goto("fill.insert")

FillClearJsCall ==
    /\ pc = "fill.clear.js.call"
    /\ Send(Cmd("Runtime.callFunctionOn", "_clear_field_robust", "this.value = ''", 0, 0))
    /\ Frame /\ UNCHANGED <<page, stack>>
    /\ \E cleared \in {"js", "failed"} :
            loc' = [loc EXCEPT !.clear = cleared]
    /\ Goto("fill.insert")

\* if text: Input.insertText
FillInsert ==
    /\ pc = "fill.insert"
    /\ Frame /\ UNCHANGED <<loc, page>>
    /\ IF call.text # <<>>
       THEN /\ Send(Cmd("Input.insertText", "fill", "", 0, 0))
            /\ \/ OpReturn
               \/ \E e \in ErrTexts : OpRaise(e)
       ELSE /\ UNCHANGED <<sent, queried>>
            /\ OpReturn

(***************************************************************************)
(* EventBus (events/bus.py).  A registered handler is written             *)
(* [handler, event_type, ticket, once]: the callable, the type it was      *)
(* registered for, the number of the registration that put it on its list, *)
(* and which list that was.  The code keeps the callable only; the other   *)
(* fields are there for the properties.                                    *)
(***************************************************************************)
EventTypes == {"NavigationEvent", "ErrorEvent"}

\* dict.get(event_type, []) and the defaultdict's [event_type] on a dict of lists
ListOf(d, event_type) == IF event_type \in DOMAIN d THEN d[event_type] ELSE <<>>

\* d[event_type] = list
SetList(d, event_type, list) ==
    [t \in DOMAIN d \cup {event_type} |-> IF t = event_type THEN list ELSE d[t]]

Registered(event_type, handler, once) ==
    [handler |-> handler, event_type |-> event_type, ticket |-> registrations + 1, once |-> once]

\* handler in list
OnList(list, handler) == \E p \in DOMAIN list : list[p].handler = handler

\* list.remove(handler) when handler is in the list: its first occurrence goes
RemoveFirst(list, handler) ==
    LET hits == {p \in DOMAIN list : list[p].handler = handler}
    IN  IF hits = {} THEN list
        ELSE LET first == CHOOSE p \in hits : \A q \in hits : p <= q
             IN  SubSeq(list, 1, first - 1) \o SubSeq(list, first + 1, Len(list))

\* mutant: the one-time handlers go first
AllHandlers_OnceFirst(regular, once) == once \o regular

\* all_handlers = handlers + once_handlers
AllHandlers(regular, once) == regular \o once

\* mutant: the exception of a handler leaves emit
HandlerFailed_Propagates(frame) == [frame EXCEPT !.pc = "raised"]

\* except Exception as e: logger.error(...), and on with the loop
HandlerFailed(frame) == [frame EXCEPT !.next = @ + 1]

\* mutant: the one-time handlers stay on their list when an emit takes them
AfterSnapshot_Kept(d, event_type, once) == d

\* if once_handlers: self._once_handlers[event_type] = []
AfterSnapshot(d, event_type, once) ==
    IF once # <<>> THEN SetList(d, event_type, <<>>) ELSE d

\* a call of emit that has come to its loop; by is "await" or "emit_sync"
EmitFrame(event_type, by, all_handlers) ==
    [ event_type |-> event_type, by |-> by,
      all_handlers |-> all_handlers, next |-> 1,
      pc |-> IF all_handlers = <<>> THEN "returned" ELSE "loop" ]

\* asyncio.create_task(self.emit(event)): the coroutine has not begun
Scheduled(event_type) ==
    [ event_type |-> event_type, by |-> "emit_sync",
      all_handlers |-> <<>>, next |-> 1, pc |-> "scheduled" ]

(***************************************************************************)
(* Agent (agent/loop.py) and AgentHistoryList (agent/views.py).            *)
(* An optional bool is <<>> for None and <<b>> for the bool b.             *)
(***************************************************************************)
\* AgentState()
AgentState ==
    [ step_count |-> 0, done |-> FALSE, success |-> FALSE, error |-> NoStr,
      consecutive_failures |-> 0, total_failures |-> 0 ]

\* mutant: one step more than max_steps
ShouldStop_OneMore(s) ==
    \/ s.done
    \/ s.step_count > config.max_steps
    \/ s.consecutive_failures >= config.max_consecutive_failures

\* what _should_stop returns
ShouldStop(s) ==
    \/ s.done
    \/ s.step_count >= config.max_steps
    \/ s.consecutive_failures >= config.max_consecutive_failures

\* the state _should_stop leaves: it sets error when it stops on failures
AfterShouldStop(s) ==
    IF ~ s.done /\ s.step_count < config.max_steps
       /\ s.consecutive_failures >= config.max_consecutive_failures
    THEN [s EXCEPT !.error = Some(<<"T","o","o"," ","m","a","n","y"," ","c","o","n","s","e","c","u","t","i","v","e"," ","f","a","i","l","u","r","e","s">>)]
    ELSE s

\* action_args.get("success", True)
ArgSuccess(action_args) ==
    IF "success" \in DOMAIN action_args THEN action_args.success ELSE TRUE

\* the actions after which _execute_step waits for the page and looks at its URL
StabilityActions == {"click", "navigate", "type_text", "press_key"}

\* the step's page_changed after action a has succeeded: the wait for
\* stability is configured, a is one of its actions, the get_state that
\* follows answers, and the URL it gives differs from that of the step's
\* dom_state
PageChanged(a) ==
    /\ config.wait_for_stability
    /\ a.name \in StabilityActions
    /\ a.settles
    /\ a.navigates

\* ActionResult(is_done=action_name == "done", success=exec_result.success, ...);
\* stale is kept for the properties: the action was executed after an earlier
\* action of its step had changed the URL of the page
StepResult(a, stale) ==
    [is_done |-> a.name = "done", success |-> <<a.ok>>, stale |-> stale]

\* the for loop of _execute_step over the actions left, from AgentState s with
\* the results so far; moved tells whether the URL of the page has changed
\* since the step's dom_state was taken
RECURSIVE RunActions(_, _, _, _)
RunActions(actions, s, so_far, moved) ==
    IF actions = <<>> THEN [state |-> s, results |-> so_far]
    ELSE LET a == Head(actions)
             listed == Append(so_far, StepResult(a, moved))
             now_moved == moved \/ a.navigates
         IN  IF a.ok
             THEN LET reset == [s EXCEPT !.consecutive_failures = 0]
                  IN  IF a.name = "done"
                      THEN [ state |-> [reset EXCEPT !.done = TRUE,
                                                     !.success = ArgSuccess(a.args)],
                             results |-> listed ]
                      ELSE IF PageChanged(a)
                      THEN [state |-> reset, results |-> listed]
                      ELSE RunActions(Tail(actions), reset, listed, now_moved)
             ELSE RunActions(Tail(actions),
                             [s EXCEPT !.consecutive_failures = @ + 1,
                                       !.total_failures = @ + 1],
                             listed, now_moved)

\* AgentHistoryList.is_successful
is_successful(h) ==
    IF h # <<>> /\ h[Len(h)].results # <<>>
    THEN LET last_result == h[Len(h)].results[Len(h[Len(h)].results)]
         IN  IF last_result.is_done THEN last_result.success ELSE <<>>
    ELSE <<>>

\* self._state.success = self._state.done and not self._state.error
AfterLoopSuccess(s) == s.done /\ s.error = NoStr

(***************************************************************************)
(* utils/domain.py: is_url_allowed, and the actions that load a URL        *)
(***************************************************************************)
\* s.startswith(prefix) and s.endswith(suffix)
startswith(s, prefix) ==
    Len(s) >= Len(prefix) /\ SubSeq(s, 1, Len(prefix)) = prefix
endswith(s, suffix) ==
    Len(s) >= Len(suffix) /\ SubSeq(s, Len(s) - Len(suffix) + 1, Len(s)) = suffix

\* s.find(sub) + 1: the first position of sub in s, 0 when it is not there
Find(sub, s) ==
    IF Contains(sub, s)
    THEN 1 + CHOOSE i \in 0..(Len(s) - Len(sub)) :
                /\ SubSeq(s, i + 1, i + Len(sub)) = sub
                /\ \A j \in 0..(i - 1) : SubSeq(s, j + 1, j + Len(sub)) # sub
    ELSE 0

\* s from position p on
From(s, p) == SubSeq(s, p, Len(s))

\* the part of s before the first character that is in stops
RECURSIVE UpTo(_, _)
UpTo(s, stops) ==
    IF s = <<>> \/ Head(s) \in stops THEN <<>>
    ELSE <<Head(s)>> \o UpTo(Tail(s), stops)

\* the part of s after its last "@", all of s when it has none
RECURSIVE AfterLastAt(_)
AfterLastAt(s) ==
    IF Contains(<<"@">>, s) THEN AfterLastAt(From(s, Find(<<"@">>, s) + 1)) ELSE s

\* urlparse(url).hostname: <<>> for None.  The netloc is what stands between
\* "//" after the scheme and the next "/", "?" or "#"; the hostname is the
\* netloc without user information and port, in lower case.
Hostname(url) ==
    LET colon == Find(<<":">>, url)
        rest == IF colon > 1 THEN From(url, colon + 1) ELSE url
    IN  IF ~ startswith(rest, <<"/","/">>) THEN <<>>
        ELSE LET netloc == UpTo(From(rest, 3), {"/", "?", "#"})
                 hostport == AfterLastAt(netloc)
                 name == Lower(UpTo(hostport, {":"}))
             IN  IF name = <<>> THEN <<>> ELSE <<name>>

\* fnmatch.fnmatch(h, pattern) for patterns whose only wildcard is "*"
RECURSIVE fnmatch(_, _)
fnmatch(h, pattern) ==
    IF pattern = <<>> THEN h = <<>>
    ELSE IF Head(pattern) = "*"
    THEN \E k \in 0..Len(h) : fnmatch(From(h, k + 1), Tail(pattern))
    ELSE h # <<>> /\ Head(h) = Head(pattern) /\ fnmatch(Tail(h), Tail(pattern))

\* _matches_domain(host, pattern)
matches_domain(host0, pattern0) ==
    LET host == Lower(host0)
        lowered == Lower(pattern0)
        pattern == IF Contains(<<":","/","/">>, lowered)
                   THEN From(lowered, Find(<<":","/","/">>, lowered) + 3)
                   ELSE lowered
        host_variants == IF startswith(host, <<"w","w","w",".">>)
                         THEN {host, From(host, 5)}
                         ELSE {host, <<"w","w","w",".">> \o host}
    IN  IF startswith(pattern, <<"*",".">>)
        THEN \E h \in host_variants :
                h = From(pattern, 3) \/ endswith(h, <<".">> \o From(pattern, 3))
        ELSE IF Contains(<<"*">>, pattern)
        THEN \E h \in host_variants : fnmatch(h, pattern)
        ELSE \E h \in host_variants : h = pattern

InternalPages == {<<"a","b","o","u","t",":","b","l","a","n","k">>, <<"c","h","r","o","m","e",":","/","/","n","e","w","-","t","a","b","-","p","a","g","e","/">>, <<"c","h","r","o","m","e",":","/","/","n","e","w","t","a","b","/">>}

\* is_url_allowed(url, allowed_domains)
is_url_allowed(url, domains) ==
    IF domains = <<>> THEN TRUE
    ELSE IF url \in InternalPages THEN TRUE
    ELSE IF Hostname(url) = <<>> THEN FALSE
    ELSE \E i \in DOMAIN domains : matches_domain(Hostname(url)[1], domains[i])

\* urllib.parse.quote for letters, digits and spaces
Quote(query) ==
    IF query = <<>> THEN <<>>
    ELSE Join([i \in 1..Len(query) |->
                 IF query[i] = " " THEN <<"%","2","0">> ELSE <<query[i]>>], <<>>)

\* the URL search navigates to
SearchUrl(query) == <<"h","t","t","p","s",":","/","/","w","w","w",".","g","o","o","g","l","e",".","c","o","m","/","s","e","a","r","c","h","?","q","=">> \o Quote(query)

(***************************************************************************)
(* Tab management of BrowserSession (browser/session.py).  The tracked     *)
(* tabs are a dict in insertion order: here a sequence of TabInfo records, *)
(* with the session's _target_id beside it.                                *)
(***************************************************************************)
TabInfo(target_id, is_active) == [target_id |-> target_id, is_active |-> is_active]

\* self._tabs and self._target_id after start
StartedSession == [tabs |-> <<TabInfo(0, TRUE)>>, target_id |-> 0]

\* target_id in self._tabs
Tracked(s, target_id) == \E i \in DOMAIN s.tabs : s.tabs[i].target_id = target_id

\* del self._tabs[target_id]
Without(tabs, target_id) == SelectSeq(tabs, LAMBDA tab : tab.target_id # target_id)

\* what a call gives: the session after it, the exception it raised ("" when
\* it returned), and whether Target.closeTarget was sent and answered
Gives(s, raised, closed) == [session |-> s, raised |-> raised, closed |-> closed]

\* create_tab, new_id being the target the browser makes; fails names the
\* command that fails, if any
create_tab(s, new_id, fails) ==
    IF fails \in {"Target.createTarget", "Target.attachToTarget", "enable"}
    THEN Gives(s, "ProtocolError", FALSE)
    ELSE Gives([s EXCEPT !.tabs = Append(@, TabInfo(new_id, FALSE))], "", FALSE)

\* switch_tab
switch_tab(s, target_id, fails) ==
    IF ~ Tracked(s, target_id) THEN Gives(s, "ValueError", FALSE)
    ELSE IF target_id = s.target_id THEN Gives(s, "", FALSE)
    ELSE IF fails = "Target.activateTarget" THEN Gives(s, "ProtocolError", FALSE)
    ELSE Gives([ tabs |-> [i \in DOMAIN s.tabs |->
                             TabInfo(s.tabs[i].target_id, s.tabs[i].target_id = target_id)],
                 target_id |-> target_id ], "", FALSE)

\* mutant: the last tab may be closed
LastTab_Never(tabs) == Len(tabs) <= 0

\* len(self._tabs) <= 1
LastTab(tabs) == Len(tabs) <= 1

\* close_tab
close_tab(s, target_id, fails) ==
    IF ~ Tracked(s, target_id) THEN Gives(s, "ValueError", FALSE)
    ELSE IF LastTab(s.tabs) THEN Gives(s, "RuntimeError", FALSE)
    ELSE IF fails = "Target.closeTarget" THEN Gives(s, "ProtocolError", FALSE)
    ELSE LET was_active == target_id = s.target_id
             removed == [s EXCEPT !.tabs = Without(@, target_id)]
         IN  IF was_active /\ removed.tabs # <<>>
             THEN LET switched == switch_tab(removed, removed.tabs[1].target_id, fails)
                  IN  Gives(switched.session, switched.raised, TRUE)
             ELSE Gives(removed, "", TRUE)

\* the action close_tab of tools/actions.py: what session.close_tab raises
\* becomes ActionResult.fail
close_tab_action(s, tab_index, fails) ==
    IF tab_index < 0 \/ tab_index >= Len(s.tabs) THEN Gives(s, "ActionResult.fail", FALSE)
    ELSE IF LastTab(s.tabs) THEN Gives(s, "ActionResult.fail", FALSE)
    ELSE LET closing == close_tab(s, s.tabs[tab_index + 1].target_id, fails)
         IN  Gives(closing.session,
                   IF closing.raised = "" THEN "" ELSE "ActionResult.fail",
                   closing.closed)

(***************************************************************************)
(* NetworkWatchdog (watchdogs/network.py).  Times are ticks of the event   *)
(* loop's clock.                                                           *)
(***************************************************************************)
\* the fields of the dataclass NetworkRequestCompletedEvent and of Event
CompletedEventFields == {"id", "timestamp", "request_id", "url", "status", "mime_type"}

\* the keywords _on_request_finished constructs the event with
CompletedEventKeywords == {"request_id", "url", "method", "status", "mime_type", "params"}

\* a dataclass constructor raises TypeError on a keyword that is no field
ConstructorRaises(keywords, fields) == ~ (keywords \subseteq fields)

\* url.startswith("data:") or url.startswith("chrome-extension:")
IgnoredUrl(url) == startswith(url, <<"d","a","t","a",":">>) \/ startswith(url, <<"c","h","r","o","m","e","-","e","x","t","e","n","s","i","o","n",":">>)

\* the watchdog after _initialize at time t
Watchdog(idle_threshold, t) ==
    [ pending_requests |-> {}, request_context |-> {},
      idle_threshold |-> idle_threshold, last_activity_time |-> t ]

\* _on_request_started
on_request_started(w, request_id, url, t) ==
    IF IgnoredUrl(url) THEN w
    ELSE [w EXCEPT !.pending_requests = @ \cup {request_id},
                   !.request_context = @ \cup {request_id},
                   !.last_activity_time = t]

\* _on_request_finished: the construction of the event raises before the
\* context is popped and before the activity time is set
on_request_finished(w, request_id, t) ==
    LET discarded == [w EXCEPT !.pending_requests = @ \ {request_id}]
    IN  IF /\ request_id \in w.request_context
           /\ ConstructorRaises(CompletedEventKeywords, CompletedEventFields)
        THEN discarded
        ELSE [discarded EXCEPT !.request_context = @ \ {request_id},
                               !.last_activity_time = t]

\* _on_request_failed
on_request_failed(w, request_id, error_text, t) ==
    LET cleaned == [w EXCEPT !.pending_requests = @ \ {request_id},
                             !.request_context = @ \ {request_id}]
    IN  IF error_text = "net::ERR_ABORTED" THEN cleaned
        ELSE [cleaned EXCEPT !.last_activity_time = t]

\* the property is_idle read at time t
is_idle(w, t) ==
    /\ Cardinality(w.pending_requests) = 0
    /\ t - w.last_activity_time >= w.idle_threshold

(***************************************************************************)
(* The node lists serialize is applied to.                                 *)
(***************************************************************************)
Box(w, h) == [x |-> 0, y |-> 0, width |-> w, height |-> h]

DOMNode(name, attrs, bbox, ax_name, ax_role) ==
    [ backend_node_id |-> 0, node_name |-> name, attributes |-> attrs,
      bounding_box |-> bbox, ax_name |-> ax_name, ax_role |-> ax_role,
      parent_index |-> -1 ]

NoAttrs == [k \in {} |-> <<>>]

\* node shapes: every way of being (in)visible and (non-)interactive
NodePool ==
    { DOMNode(<<"B","U","T","T","O","N">>, [k \in {<<"i","d">>} |-> <<"g","o">>], Box(10, 5), <<"G","o">>, <<"b","u","t","t","o","n">>),
      DOMNode(<<"D","I","V">>, NoAttrs, Box(10, 5), <<>>, <<>>),
      DOMNode(<<"A">>, [k \in {<<"h","r","e","f">>} |-> <<"/","a","/","b","?","x","=","1">>], Box(0, 5), <<"H","o","m","e">>, <<"l","i","n","k">>),
      DOMNode(<<"I","N","P","U","T">>, [k \in {<<"t","y","p","e">>} |-> <<"t","e","x","t">>], None, <<>>, <<>>),
      DOMNode(<<"D","I","V">>, [k \in {<<"r","o","l","e">>} |-> <<"t","e","x","t","b","o","x">>], Box(4, 4), <<>>, <<>>),
      DOMNode(<<"S","P","A","N">>, [k \in {<<"s","t","y","l","e">>} |-> <<"c","u","r","s","o","r",":"," ","p","o","i","n","t","e","r">>], Box(3, 0), <<>>, <<>>),
      DOMNode(<<"D","I","V">>, [k \in {<<"o","n","c","l","i","c","k">>} |-> <<"f","(",")">>], [x |-> 0, y |-> 0, width |-> 7],
              <<>>, <<>>),
      DOMNode(<<"P">>, [k \in {<<"c","o","n","t","e","n","t","e","d","i","t","a","b","l","e">>} |-> <<"F","a","l","s","e">>], Box(2, 2), <<>>, <<>>),
      DOMNode(<<"S","P","A","N">>, [k \in {<<"t","a","b","i","n","d","e","x">>} |-> <<>>], Box(1, 1), <<"x">>, <<>>) }

\* backend node ids are unique within one snapshot
WithIds(shapes) ==
    [p \in 1..Len(shapes) |-> [shapes[p] EXCEPT !.backend_node_id = 10 + p]]

NodeLists ==
    {WithIds(shapes) : shapes \in UNION {[1..n -> NodePool] : n \in 0..MaxNodes}}

DomInit ==
    /\ nodes \in NodeLists
    /\ serialized = None /\ again = None
    /\ ActIdle
    /\ RetryIdle /\ StateIdle /\ PointIdle /\ MoreIdle

\* DOMSerializer.serialize(nodes, selector_gen)
Serialize ==
    /\ serialized = None
    /\ serialized' = serialize(nodes)
    /\ UNCHANGED <<nodes, again, actVars, retryVars, stateVars, pointVars, moreVars>>

\* a second call of serialize with the same list and the same serializer
SerializeAgain ==
    /\ serialized # None
    /\ again = None
    /\ again' = serialize(nodes)
    /\ UNCHANGED <<nodes, serialized, actVars, retryVars, stateVars, pointVars, moreVars>>

DomNext == Serialize \/ SerializeAgain

SpecDom == DomInit /\ [][DomNext]_vars

(***************************************************************************)
(* The registry executing one request against the browser                  *)
(***************************************************************************)
Next ==
    \/ ExecuteAny
    \/ RetrySleep
    \/ ClickPointerEventsResolve
    \/ ClickPointerEventsStyle
    \/ ClickLayoutMetrics
    \/ ClickContentQuads
    \/ ClickBoxModel
    \/ ClickRectResolve
    \/ ClickRectCall
    \/ ClickScroll
    \/ ScrollIntoViewResolve
    \/ ScrollIntoViewCall
    \/ ClickRequads
    \/ ClickVerifyResolve
    \/ ClickVerifyCall
    \/ DispatchMoved
    \/ DispatchPressed
    \/ DispatchReleased
    \/ ClickReturn
    \/ JsClickResolve
    \/ JsClickCall
    \/ HoverBox
    \/ HoverMove
    \/ FocusDescribe
    \/ FocusDom
    \/ FocusJsResolve
    \/ FocusJsCall
    \/ SelectOptionResolve
    \/ SelectOptionCall
    \/ FillScroll
    \/ FillFocus
    \/ FillFocusDom
    \/ FillFocusJsResolve
    \/ FillFocusJsCall
    \/ FillFocusClick
    \/ FillClear
    \/ FillClearKeyboard
    \/ FillClearBox
    \/ FillClearTripleClick
    \/ FillClearJsResolve
    \/ FillClearJsCall
    \/ FillInsert

\* no snapshot is being serialized while the registry executes a request
Init ==
    /\ nodes = <<>>
    /\ serialized = None /\ again = None
    /\ ActInit
    /\ RetryIdle /\ StateIdle /\ PointIdle /\ MoreIdle

Spec == Init /\ [][Next]_vars

(***************************************************************************)
(* with_retry called with an action_fn of any behaviour                    *)
(***************************************************************************)
\* ActionResult(success=False), whose error is None
FailNoError ==
    [success |-> FALSE, message |-> <<>>, error |-> NoStr, data |-> NoData]

\* what one call of action_fn can give: a result it returns, or an Exception
ActionFnOutcomes ==
    { [kind |-> "return", result |-> r, msg |-> <<>>] :
        r \in { Ok(<<"d","o","n","e">>, NoData),
                Fail(<<"E","l","e","m","e","n","t"," ","3"," ","n","o","t"," ","v","i","s","i","b","l","e">>),
                Fail(<<"T","i","m","e","d"," ","O","u","t"," ","w","a","i","t","i","n","g"," ","f","o","r"," ","r","e","s","p","o","n","s","e">>),
                Fail(<<"o","p","t","i","o","n"," ","n","o","t"," ","f","o","u","n","d">>),
                FailNoError } }
    \cup { [kind |-> "raise", result |-> FailNoError, msg |-> m] :
             m \in { <<"b","o","o","m">>, <<"n","o"," ","g","e","o","m","e","t","r","y"," ","f","o","u","n","d">>, <<>> } }

\* with_retry(action_fn, max_retries=..., element_context=...)
RetryCalls ==
    [ name : {"with_retry"},
      max_retries : 0..DEFAULT_MAX_RETRIES,
      element_context : { <<>>, <<"e","l","e","m","e","n","t"," ","0"," ","(","A",")">> } ]

RetryInit ==
    /\ nodes = <<>>
    /\ serialized = None /\ again = None
    /\ pc = "action_fn"
    /\ session = TRUE
    /\ dom_state = None
    /\ call \in RetryCalls
    /\ attempt = 0
    /\ last_error = NoStr
    /\ sent = <<>>
    /\ queried = FALSE
    /\ loc = LocInit
    /\ page = [scrolled |-> FALSE]
    /\ stack = <<>>
    /\ outcome = None
    /\ RetryIdle /\ StateIdle /\ PointIdle /\ MoreIdle

\* one pass through the try statement: result = await action_fn(...)
ActionFn ==
    /\ pc = "action_fn"
    /\ \E o \in ActionFnOutcomes :
          /\ invoked' = Append(invoked, o)
          /\ IF o.kind = "return" THEN RetryReturn(o.result) ELSE RetryRaise(o.msg)
    /\ UNCHANGED <<session, dom_state, call, sent, queried, loc, page, stack>>
    /\ UNCHANGED <<domVars, stateVars, pointVars, moreVars>>

RetryNext == ActionFn \/ RetrySleep

SpecRetry == RetryInit /\ [][RetryNext]_vars

(***************************************************************************)
(* get_state against a browser whose three calls answer or fail            *)
(***************************************************************************)
MaxSnapshotNodes == 2

\* the strings table of the snapshots
Strings ==
    << <<"B","U","T","T","O","N">>, <<"#","t","e","x","t">>, <<"#","c","o","m","m","e","n","t">>, <<"S","C","R","I","P","T">>, <<"s","t","y","l","e">>, <<"M","E","T","A">>, <<"L","I","N","K">>,
       <<"H","E","A","D">>, <<"D","I","V">>, <<"i","d">>, <<"g","o">>, <<"o","n","c","l","i","c","k">>, <<"f","(",")">>, <<"h","r","e","f">>, <<"/","a">>,
       <<"r","o","l","e">>, <<"t","e","x","t","b","o","x">> >>

\* one node of the page: index of its name in the strings table, its
\* attribute list, its layout bounds (<<>> when it has no layout), and the
\* name and role the accessibility tree has for it (<<>>: not in that tree);
\* backed is FALSE for a node whose backendNodeId the snapshot gives as 0
Raw(name, attrs, bounds, ax) ==
    [name |-> name, attrs |-> attrs, bounds |-> bounds, ax |-> ax, backed |-> TRUE]

RawPool ==
    { Raw(0, <<9, 10>>, <<0, 0, 10, 5>>, <<<<"G","o">>, <<"b","u","t","t","o","n">>>>),
      Raw(1, <<>>, <<0, 0, 10, 5>>, <<<<"G","o">>, <<"S","t","a","t","i","c","T","e","x","t">>>>),
      Raw(2, <<>>, <<>>, <<>>),
      Raw(3, <<11, 12>>, <<0, 0, 4, 4>>, <<<<"r","u","n">>, <<"b","u","t","t","o","n">>>>),
      Raw(4, <<>>, <<0, 0, 3, 3>>, <<>>),
      Raw(5, <<15, 16>>, <<0, 0, 1, 1>>, <<>>),
      Raw(6, <<13, 14>>, <<0, 0, 2, 2>>, <<<<"a">>, <<"l","i","n","k">>>>),
      Raw(7, <<11, 12>>, <<0, 0, 9, 9>>, <<>>),
      Raw(8, <<15, 16>>, <<0, 0, 8, 8>>, <<>>),
      [Raw(0, <<>>, <<0, 0, 6, 6>>, <<>>) EXCEPT !.backed = FALSE] }

RawLists == UNION {[1..n -> RawPool] : n \in 0..MaxSnapshotNodes}

\* the rows of the document's layout table, from node p on
RECURSIVE LayoutRows(_, _)
LayoutRows(raws, p) ==
    IF p > Len(raws) THEN <<>>
    ELSE (IF raws[p].bounds = <<>> THEN <<>> ELSE << <<p - 1, raws[p].bounds>> >>)
         \o LayoutRows(raws, p + 1)

\* the answer of DOMSnapshot.captureSnapshot for a page of these nodes
SnapshotOf(raws) ==
    LET rows == LayoutRows(raws, 1)
    IN  [ documents |->
            << [ nodes |->
                   [ nodeName |-> [p \in 1..Len(raws) |-> raws[p].name],
                     backendNodeId |->
                       [p \in 1..Len(raws) |-> IF raws[p].backed THEN 10 + p ELSE 0],
                     parentIndex |-> [p \in 1..Len(raws) |-> p - 2],
                     attributes |-> [p \in 1..Len(raws) |-> raws[p].attrs] ],
                 layout |->
                   [ nodeIndex |-> [r \in 1..Len(rows) |-> rows[r][1]],
                     bounds |-> [r \in 1..Len(rows) |-> rows[r][2]] ] ] >>,
          strings |-> Strings ]

\* the AX nodes of the page, from node p on
RECURSIVE AxRows(_, _)
AxRows(raws, p) ==
    IF p > Len(raws) THEN <<>>
    ELSE (IF raws[p].ax = <<>> THEN <<>>
          ELSE << [ backendDOMNodeId |-> 10 + p,
                    name |-> [value |-> raws[p].ax[1]],
                    role |-> [value |-> raws[p].ax[2]] ] >>)
         \o AxRows(raws, p + 1)

\* the answer of Accessibility.getFullAXTree
AxTreeOf(raws) == [nodes |-> AxRows(raws, 1)]

\* the answer of Page.getLayoutMetrics
LayoutMetrics ==
    [ visualViewport |-> [pageX |-> 0, pageY |-> 120, clientWidth |-> 100,
                          clientHeight |-> 100],
      layoutViewport |-> [pageX |-> 0, pageY |-> 0, clientWidth |-> 100,
                          clientHeight |-> 100] ]

\* the coroutines handed to gather, by their place among its arguments
Coroutines == 1..3

StateInit ==
    /\ nodes = <<>>
    /\ serialized = None /\ again = None
    /\ ActIdle
    /\ RetryIdle /\ PointIdle /\ MoreIdle
    /\ \E raws \in RawLists, fails \in SUBSET Coroutines :
          cdp = [ answers |-> <<SnapshotOf(raws), AxTreeOf(raws), LayoutMetrics>>,
                  fails |-> fails ]
    /\ results = <<EmptyDict, EmptyDict, EmptyDict>>
    /\ order = <<>>

\* mutant: only _get_snapshot has the except clause
Caught_OnlySnapshot(c) == c = 1

\* the except Exception clause of the three coroutines
Caught(c) == c \in Coroutines

\* mutant: gather hands the results over in the order of completion
GatherSlot_ByCompletion(c) == Len(order) + 1

\* the place of a coroutine's result in the list gather returns
GatherSlot(c) == c

\* coroutine c returns value to gather
Completes(c, value) ==
    /\ results' = [results EXCEPT ![GatherSlot(c)] = value]
    /\ order' = Append(order, c)
    /\ UNCHANGED <<pc, outcome>>

\* coroutine c comes to its end: its protocol call answered, or it failed
CoroutineDone(c) ==
    /\ pc = "idle"
    /\ \A p \in DOMAIN order : order[p] # c
    /\ IF c \notin cdp.fails THEN Completes(c, cdp.answers[c])
       ELSE IF Caught(c) THEN Completes(c, EmptyDict)
       ELSE /\ Escape([cls |-> "RuntimeError", msg |-> <<"T","i","m","e","d"," ","o","u","t"," ","w","a","i","t","i","n","g"," ","f","o","r"," ","r","e","s","p","o","n","s","e">>])
            /\ UNCHANGED <<results, order>>
    /\ UNCHANGED <<nodes, serialized, again, cdp, session, dom_state, call, attempt, last_error,
                   sent, queried, loc, page, stack>>
    /\ UNCHANGED <<retryVars, pointVars, moreVars>>

GetSnapshot == CoroutineDone(1)
GetAccessibilityTree == CoroutineDone(2)
GetLayoutMetrics == CoroutineDone(3)

\* mutant: gather returns at the first completion
GatherDone_First == Len(order) >= 1

\* gather returns once every coroutine has completed
GatherDone == Len(order) = 3

\* get_state after the await: _build_tree, serialize, scroll_info, return
GetStateFuse ==
    /\ pc = "idle"
    /\ GatherDone
    /\ LET fused == Fuse(results[1], results[2], results[3])
       IN  /\ nodes' = fused.tree
           /\ serialized' = fused.serialized
           /\ outcome' = [kind |-> "return", result |-> fused.serialized]
    /\ pc' = "done"
    /\ UNCHANGED <<again, cdp, results, order, session, dom_state, call, attempt, last_error,
                   sent, queried, loc, page, stack>>
    /\ UNCHANGED <<retryVars, pointVars, moreVars>>

StateNext ==
    \/ GetSnapshot
    \/ GetAccessibilityTree
    \/ GetLayoutMetrics
    \/ GetStateFuse

SpecState == StateInit /\ [][StateNext]_vars

(***************************************************************************)
(* _find_best_click_point applied to any list of quads                     *)
(***************************************************************************)
MaxQuads == 2

\* quads as the browser may give them, in halves of a pixel: inside the viewport, beyond it on
\* either side, across its corner, without area, too short, too long, and
\* three small ones of 2.25, 2.5 and 0.25 square pixels
QuadPool ==
    { <<10, 40, 30, 40, 30, 50, 10, 50>>,
      <<0, 0, 3, 0, 3, 3, 0, 3>>,
      <<0, 0, 2, 0, 2, 5, 0, 5>>,
      <<0, 0, 1, 0, 1, 1, 0, 1>>,
      <<500, 600, 520, 600, 520, 610, 500, 610>>,
      <<-50, -60, -30, -60, -30, -40, -50, -40>>,
      <<-10, -10, 10, -10, 10, 10, -10, 10>>,
      <<5, 5, 5, 5, 5, 5, 5, 5>>,
      <<1, 2, 3, 4>>,
      <<>>,
      <<0, 0, 10, 0, 10, 10, 0, 10, 1000>> }

QuadLists == UNION {[1..n -> QuadPool] : n \in 0..MaxQuads}

\* viewport widths and heights, from the smallest on
ViewportSizes == {1, 2, 100}

PointInit ==
    /\ nodes = <<>>
    /\ serialized = None /\ again = None
    /\ ActIdle
    /\ RetryIdle /\ StateIdle /\ MoreIdle
    /\ measured \in [ quads : QuadLists, vw : ViewportSizes, vh : ViewportSizes,
                     unit : {2} ]
    /\ best_point = None

\* self._find_best_click_point(quads, viewport_width, viewport_height)
FindBestClickPoint ==
    /\ best_point = None
    /\ LET p == find_best_click_point(measured.quads, measured.vw, measured.vh)
       IN  best_point' = [x |-> p[1], y |-> p[2]]
    /\ UNCHANGED <<measured, domVars, actVars, retryVars, stateVars, moreVars>>

PointNext == FindBestClickPoint

SpecPoint == PointInit /\ [][PointNext]_vars

(***************************************************************************)
(* The properties of DOMNode and SelectorGenerator.generate, applied to    *)
(* one node or to two nodes side by side.                                  *)
(***************************************************************************)
Dict1(key, val) == [k \in {key} |-> val]
Dict2(k1, v1, k2, v2) == [k \in {k1, k2} |-> IF k = k1 THEN v1 ELSE v2]

NodeTags == {<<"D","I","V">>, <<"b","u","t","t","o","n">>, <<"A">>, <<"S","P","A","N">>}

NodeAttrs ==
    { NoAttrs,
      Dict1(<<"r","o","l","e">>, <<"t","e","x","t","b","o","x">>), Dict1(<<"r","o","l","e">>, <<"p","r","e","s","e","n","t","a","t","i","o","n">>),
      Dict1(<<"c","o","n","t","e","n","t","e","d","i","t","a","b","l","e">>, <<"t","r","u","e">>), Dict1(<<"c","o","n","t","e","n","t","e","d","i","t","a","b","l","e">>, <<"p","l","a","i","n","t","e","x","t","-","o","n","l","y">>),
      Dict1(<<"c","o","n","t","e","n","t","e","d","i","t","a","b","l","e">>, <<"f","a","l","s","e">>), Dict1(<<"c","o","n","t","e","n","t","e","d","i","t","a","b","l","e">>, <<"F","a","l","s","e">>),
      Dict1(<<"c","o","n","t","e","n","t","e","d","i","t","a","b","l","e">>, <<>>),
      Dict1(<<"o","n","c","l","i","c","k">>, <<"f","(",")">>), Dict1(<<"o","n","k","e","y","u","p">>, <<"f","(",")">>), Dict1(<<"o","n","k","e","y","p","r","e","s","s">>, <<"f","(",")">>),
      Dict1(<<"t","a","b","i","n","d","e","x">>, <<>>), Dict1(<<"t","a","b","i","n","d","e","x">>, <<"-","1">>),
      Dict1(<<"s","t","y","l","e">>, <<"c","u","r","s","o","r",":"," ","p","o","i","n","t","e","r">>), Dict1(<<"s","t","y","l","e">>, <<"c","u","r","s","o","r",":"," ","d","e","f","a","u","l","t">>),
      Dict1(<<"s","t","y","l","e">>, <<"p","o","i","n","t","e","r","-","e","v","e","n","t","s",":"," ","n","o","n","e",";"," ","c","u","r","s","o","r",":"," ","d","e","f","a","u","l","t">>),
      Dict1(<<"c","l","a","s","s">>, <<"i","c","o","n">>),
      Dict1(<<"i","d">>, <<"g","o">>), Dict1(<<"i","d">>, <<>>), Dict2(<<"i","d">>, <<"g","o">>, <<"n","a","m","e">>, <<"q">>),
      Dict1(<<"h","r","e","f">>, <<"/","a","/","b","?","x","=","1">>), Dict1(<<"h","r","e","f">>, <<"/","a","/","?","x","=","1">>), Dict1(<<"h","r","e","f">>, <<"/","a","/","b">>),
      Dict1(<<"h","r","e","f">>, <<"?","x","=","1">>), Dict1(<<"h","r","e","f">>, <<"/">>), Dict1(<<"h","r","e","f">>, <<"/","a","?","x","=","1","?","y","=","/">>) }

NodeBoxes ==
    { None, [k \in {} |-> 0], Box(10, 5), Box(1, 1), Box(0, 5), Box(3, 0), Box(0, 0),
      Box(-1, 5), [x |-> 0, y |-> 0, width |-> 7] }

NodeRoles == {<<>>, <<"l","i","n","k">>, <<"g","e","n","e","r","i","c">>}

SingleNodes ==
    { DOMNode(tag, attrs, bbox, <<>>, role) :
        tag \in NodeTags, attrs \in NodeAttrs, bbox \in NodeBoxes, role \in NodeRoles }

\* values of the class attribute
ClassValues ==
    { <<"b","t","n">>, <<"b","t","n"," ","h","o","v","e","r">>, <<"h","o","v","e","r"," ","b","t","n">>, <<"b","t","n"," ","H","o","v","e","r">>, <<"b","t","n"," ","i","s","-","a","c","t","i","v","e">>,
      <<"b","t","n"," ","p","r","i","m","a","r","y">>, <<"p","r","i","m","a","r","y"," ","b","t","n">>, <<"b","t","n"," ","s","e","c","o","n","d","a","r","y">>, <<"b","t","n"," "," ","b","t","n">>,
      <<"b","t","n"," ","i","n","t","e","r","a","c","t","i","v","e">>, <<"b","t","n"," ","r","e","a","c","t","i","v","e">>, <<"h","o","v","e","r">>, <<>> }

\* nodes that are alike but for the class, the style, or having a class at all
HashNodes ==
    { DOMNode(<<"B","U","T","T","O","N">>, Dict2(<<"i","d">>, <<"x">>, <<"c","l","a","s","s">>, c), None, <<>>, <<>>) : c \in ClassValues }
    \cup { DOMNode(<<"B","U","T","T","O","N">>, Dict1(<<"i","d">>, <<"x">>), None, <<>>, <<>>),
           DOMNode(<<"B","U","T","T","O","N">>, Dict2(<<"c","l","a","s","s">>, <<"b","t","n">>, <<"s","t","y","l","e">>, <<"c","o","l","o","r",":"," ","r","e","d">>), None, <<>>, <<>>),
           DOMNode(<<"B","U","T","T","O","N">>, Dict1(<<"c","l","a","s","s">>, <<"b","t","n">>), None, <<>>, <<>>),
           DOMNode(<<"B","U","T","T","O","N">>, Dict1(<<"c","l","a","s","s">>, <<"b","t","n">>), None, <<>>, <<"b","u","t","t","o","n">>),
           DOMNode(<<"A">>, Dict1(<<"c","l","a","s","s">>, <<"b","t","n">>), None, <<>>, <<>>) }

\* no property read yet; each property read adds its name and its value
Unread == [k \in {} |-> None]

Read(p, name, value) == [k \in DOMAIN p \cup {name} |-> IF k = name THEN value ELSE p[k]]

NodeInit ==
    /\ nodes = <<>>
    /\ serialized = None /\ again = None
    /\ ActIdle
    /\ RetryIdle /\ StateIdle /\ PointIdle /\ BusIdle /\ AgentIdle /\ LateIdle
    /\ subjects \in {<<n>> : n \in SingleNodes} \cup (HashNodes \X HashNodes)
    /\ props = [i \in DOMAIN subjects |-> Unread]

NodeFrame == UNCHANGED <<subjects, domVars, actVars, retryVars, stateVars, pointVars, busVars, agentVars, lateVars>>

\* node.is_visible, read on every subject
IsVisible ==
    /\ \E i \in DOMAIN props : "is_visible" \notin DOMAIN props[i]
    /\ props' = [i \in DOMAIN props |->
                    Read(props[i], "is_visible", is_visible(subjects[i]))]
    /\ NodeFrame

\* node.is_interactive
IsInteractive ==
    /\ \E i \in DOMAIN props : "is_interactive" \notin DOMAIN props[i]
    /\ props' = [i \in DOMAIN props |->
                    Read(props[i], "is_interactive", is_interactive(subjects[i]))]
    /\ NodeFrame

\* node.stable_hash
StableHash ==
    /\ \E i \in DOMAIN props : "stable_hash" \notin DOMAIN props[i]
    /\ props' = [i \in DOMAIN props |->
                    Read(props[i], "stable_hash", stable_hash(subjects[i]))]
    /\ NodeFrame

\* SelectorGenerator().generate(node)
Generate ==
    /\ \E i \in DOMAIN props : "selectors" \notin DOMAIN props[i]
    /\ props' = [i \in DOMAIN props |->
                    Read(props[i], "selectors", generate(subjects[i]))]
    /\ NodeFrame

NodeNext == IsVisible \/ IsInteractive \/ StableHash \/ Generate

SpecNode == NodeInit /\ [][NodeNext]_vars

(***************************************************************************)
(* An EventBus with handlers coming and going, and events emitted.         *)
(***************************************************************************)
MaxRegistrations == 2
MaxEmits == 1

\* the callables handed to on, once and off
HandlerPool == {"on_a", "on_b"}

BusInit ==
    /\ nodes = <<>>
    /\ serialized = None /\ again = None
    /\ ActIdle
    /\ RetryIdle /\ StateIdle /\ PointIdle /\ NodeIdle /\ AgentIdle /\ LateIdle
    /\ handlers = <<>> /\ once_handlers = <<>> /\ registrations = 0
    /\ emitting = None /\ calls = <<>> /\ emits = 0

BusFrame == UNCHANGED <<domVars, actVars, retryVars, stateVars, pointVars, nodeVars, agentVars, lateVars>>

\* bus.on(event_type, handler)
On ==
    /\ registrations < MaxRegistrations
    /\ \E event_type \in EventTypes, handler \in HandlerPool :
          handlers' = SetList(handlers, event_type,
                              Append(ListOf(handlers, event_type), Registered(event_type, handler, FALSE)))
    /\ registrations' = registrations + 1
    /\ UNCHANGED <<once_handlers, emitting, calls, emits>>
    /\ BusFrame

\* bus.once(event_type, handler)
Once ==
    /\ registrations < MaxRegistrations
    /\ \E event_type \in EventTypes, handler \in HandlerPool :
          once_handlers' = SetList(once_handlers, event_type,
                                   Append(ListOf(once_handlers, event_type), Registered(event_type, handler, TRUE)))
    /\ registrations' = registrations + 1
    /\ UNCHANGED <<handlers, emitting, calls, emits>>
    /\ BusFrame

\* bus.off(event_type, handler), for a handler that is on one of the lists
Off ==
    /\ \E event_type \in EventTypes, handler \in HandlerPool :
          /\ \/ OnList(ListOf(handlers, event_type), handler)
             \/ OnList(ListOf(once_handlers, event_type), handler)
          /\ handlers' = SetList(handlers, event_type,
                                 RemoveFirst(ListOf(handlers, event_type), handler))
          /\ once_handlers' = SetList(once_handlers, event_type,
                                      RemoveFirst(ListOf(once_handlers, event_type), handler))
    /\ UNCHANGED <<registrations, emitting, calls, emits>>
    /\ BusFrame

\* await bus.emit(event), up to the loop over the handlers
EmitBegin ==
    /\ IF emitting = None THEN TRUE ELSE emitting.pc # "loop"
    /\ emits < MaxEmits
    /\ \E event_type \in EventTypes :
          LET regular == ListOf(handlers, event_type)
              once == ListOf(once_handlers, event_type)
              all_handlers == AllHandlers(regular, once)
          IN  /\ once_handlers' = IF once # <<>> THEN SetList(once_handlers, event_type, <<>>)
                                  ELSE once_handlers
              /\ emitting' = [ event_type |-> event_type, all_handlers |-> all_handlers,
                               next |-> 1, results |-> <<>>,
                               pc |-> IF all_handlers = <<>> THEN "returned" ELSE "loop" ]
    /\ calls' = <<>>
    /\ emits' = emits + 1
    /\ UNCHANGED <<handlers, registrations>>
    /\ BusFrame

\* one pass through the loop: the handler is called, and returns or raises
EmitCall ==
    /\ emitting # None
    /\ emitting.pc = "loop"
    /\ emitting.next <= Len(emitting.all_handlers)
    /\ LET entry == emitting.all_handlers[emitting.next]
       IN  \E raised \in BOOLEAN :
              /\ calls' = Append(calls, [entry |-> entry, raised |-> raised])
              /\ emitting' =
                    IF raised THEN HandlerFailed(emitting)
                    ELSE [emitting EXCEPT !.results = Append(@, entry.handler),
                                          !.next = @ + 1]
    /\ UNCHANGED <<handlers, once_handlers, registrations, emits>>
    /\ BusFrame

\* return results
EmitReturn ==
    /\ emitting # None
    /\ emitting.pc = "loop"
    /\ emitting.next > Len(emitting.all_handlers)
    /\ emitting' = [emitting EXCEPT !.pc = "returned"]
    /\ UNCHANGED <<handlers, once_handlers, registrations, calls, emits>>
    /\ BusFrame

BusNext == On \/ Once \/ Off \/ EmitBegin \/ EmitCall \/ EmitReturn

SpecBus == BusInit /\ [][BusNext]_vars

(***************************************************************************)
(* Calls of Agent.run for one run_id: a fresh or a resumed run, the        *)
(* language model answering each step in one of several ways, and the user *)
(* interrupting.  Kept in run for the properties: resumed_at, the          *)
(* step_count the run began with; steps, the calls of _execute_step it     *)
(* made; restored, whether it took its state from the state file; later,   *)
(* whether this is the later of two calls of run; earlier_done, whether    *)
(* the earlier call returned with done set.                                *)
(***************************************************************************)
MaxSteps == 2

NoArgs == [k \in {} |-> TRUE]

\* one entry of agent_output.action, with what executing it gives: whether
\* it succeeds, whether it changes the URL of the page, and whether the
\* get_state of the wait for stability answers
ToolCall(name, args, ok, navigates, settles) ==
    [name |-> name, args |-> args, ok |-> ok, navigates |-> navigates, settles |-> settles]

DoneCall(args) == ToolCall("done", args, TRUE, FALSE, TRUE)
ClickOk == ToolCall("click", NoArgs, TRUE, FALSE, TRUE)
ClickFails == ToolCall("click", NoArgs, FALSE, FALSE, TRUE)
ClickNavigates == ToolCall("click", NoArgs, TRUE, TRUE, TRUE)
ClickUnsettled == ToolCall("click", NoArgs, TRUE, TRUE, FALSE)
GoBack == ToolCall("go_back", NoArgs, TRUE, TRUE, TRUE)

\* the action lists the language model answers with
ModelOutputs ==
    { <<DoneCall(NoArgs)>>, <<DoneCall([success |-> FALSE])>>,
      <<ClickOk, DoneCall([success |-> FALSE])>>,
      <<ClickFails, DoneCall([success |-> TRUE])>>,
      <<ClickOk>>, <<ClickFails>>, <<ClickFails, ClickFails>>,
      <<ClickNavigates, ClickFails>>, <<ClickUnsettled, ClickOk>>,
      <<GoBack, ClickOk>> }

\* how a step goes: an exception leaves it, the call of the language model
\* fails, its answer has no action, or its actions are executed
StepScenarios ==
    { [kind |-> k, action |-> <<>>] : k \in {"raise", "llm_failed", "no_actions"} }
    \cup { [kind |-> "actions", action |-> a] : a \in ModelOutputs }

\* the fewer ways a step goes where run is called twice
FewScenarios ==
    { [kind |-> "llm_failed", action |-> <<>>] }
    \cup { [kind |-> "actions", action |-> a] : a \in {<<DoneCall(NoArgs)>>, <<ClickOk>>} }

\* PersistedState as _save_state builds it
PersistedState(s, h, same_task, paused) ==
    [state |-> s, history |-> h, same_task |-> same_task, paused |-> paused]

\* the state files an earlier pause of this run_id may have left: written by
\* _handle_pause, during a run that was not stopping
PersistedFiles ==
    { PersistedState([AgentState EXCEPT !.step_count = n], <<>>, same_task, TRUE) :
        n \in {1, MaxSteps + 1}, same_task \in BOOLEAN }

AgentInit ==
    /\ nodes = <<>>
    /\ serialized = None /\ again = None
    /\ ActIdle
    /\ RetryIdle /\ StateIdle /\ PointIdle /\ NodeIdle /\ BusIdle /\ LateIdle
    /\ config \in [ max_steps : 0..MaxSteps, max_consecutive_failures : {1, 2},
                    max_actions_per_step : {1, 2}, wait_for_stability : BOOLEAN,
                    persistence : BOOLEAN ]
    /\ state = AgentState
    /\ history = <<>>
    /\ saved \in {None} \cup PersistedFiles
    /\ config.persistence \/ saved = None
    /\ \E installed \in BOOLEAN :
          run = [ pc |-> "begin", pause_requested |-> FALSE, paused |-> FALSE,
                  exit_requested |-> FALSE, resume_event |-> FALSE,
                  signal_handler_installed |-> installed,
                  resumed_at |-> 0, steps |-> 0, restored |-> FALSE,
                  later |-> FALSE, earlier_done |-> FALSE ]

AgentFrame ==
    UNCHANGED <<domVars, actVars, retryVars, stateVars, pointVars, nodeVars, busVars, lateVars>>

\* the test run makes of the state file before it restores from it
Resumable(persisted) ==
    /\ ~ persisted.state.done
    /\ persisted.same_task
    /\ persisted.paused

\* run up to the loop: the state of a paused run is restored, or a new
\* AgentState is made
RunBegin ==
    /\ run.pc = "begin"
    /\ \E loads \in BOOLEAN :
          LET restored == config.persistence /\ saved # None /\ loads /\ Resumable(saved)
          IN  /\ state' = IF restored THEN saved.state ELSE AgentState
              /\ history' = IF restored THEN saved.history ELSE <<>>
              /\ run' = [run EXCEPT !.pc = "while", !.restored = restored,
                                    !.resumed_at = state'.step_count, !.steps = 0,
                                    !.paused = FALSE, !.pause_requested = FALSE,
                                    !.exit_requested = FALSE]
    /\ UNCHANGED <<config, saved>>
    /\ AgentFrame

\* mutant: the request for a pause is not looked at
PauseDue_Never(r) == FALSE

\* if self._pause_requested and not self._paused
PauseDue(r) == r.pause_requested /\ ~ r.paused

\* while not self._should_stop(), and the test for a pause that follows it;
\* _handle_pause begins by setting _paused
LoopTest ==
    /\ run.pc = "while"
    /\ state' = AfterShouldStop(state)
    /\ run' = IF ShouldStop(state) THEN [run EXCEPT !.pc = "after_loop"]
              ELSE IF PauseDue(run)
              THEN [run EXCEPT !.pc = "pause.save", !.paused = TRUE]
              ELSE [run EXCEPT !.pc = "step"]
    /\ UNCHANGED <<config, history, saved>>
    /\ AgentFrame

\* _handle_pause up to its wait: _save_state(paused=True), then the resume
\* event is cleared and the thread that reads the input is started
PauseSave ==
    /\ run.pc = "pause.save"
    /\ saved' = IF config.persistence
                THEN PersistedState(state, history, TRUE, TRUE)
                ELSE saved
    /\ run' = [run EXCEPT !.pc = "pause.wait", !.resume_event = FALSE]
    /\ UNCHANGED <<config, state, history>>
    /\ AgentFrame

\* the user presses Enter: read_input sets the resume event
Enter ==
    /\ run.pc = "pause.wait"
    /\ ~ run.resume_event
    /\ run' = [run EXCEPT !.resume_event = TRUE]
    /\ UNCHANGED <<config, state, history, saved>>
    /\ AgentFrame

\* the wait of _handle_pause ends, and run goes on after it
Resume ==
    /\ run.pc = "pause.wait"
    /\ run.resume_event
    /\ run' = IF run.exit_requested
              THEN [run EXCEPT !.pc = "after_loop", !.pause_requested = FALSE]
              ELSE [run EXCEPT !.pc = "step", !.paused = FALSE,
                               !.pause_requested = FALSE]
    /\ UNCHANGED <<config, state, history, saved>>
    /\ AgentFrame

\* where sigint_handler can run: with loop.add_signal_handler only while run
\* is suspended in an await that gives way to the event loop; with the
\* signal.signal fallback also where run itself is executing
Interruptible(installed) ==
    IF installed THEN {"step.await", "pause.wait"}
    ELSE {"step", "step.await", "pause.save", "pause.wait"}

\* sigint_handler: a Ctrl+C during the pause asks for the exit and sets the
\* resume event, any other asks for a pause
SigInt ==
    /\ run.pc \in Interruptible(run.signal_handler_installed)
    /\ run' = IF run.paused
              THEN [run EXCEPT !.exit_requested = TRUE, !.resume_event = TRUE]
              ELSE [run EXCEPT !.pause_requested = TRUE]
    /\ run' # run
    /\ UNCHANGED <<config, state, history, saved>>
    /\ AgentFrame

\* _execute_step is called and counts the step
StepBegin ==
    /\ run.pc = "step"
    /\ state' = [state EXCEPT !.step_count = @ + 1]
    /\ run' = [run EXCEPT !.pc = "step.await", !.steps = @ + 1]
    /\ UNCHANGED <<config, history, saved>>
    /\ AgentFrame

\* the rest of _execute_step, from its first await on
ExecuteStep(scenarios) ==
    /\ run.pc = "step.await"
    /\ \E scenario \in scenarios :
          LET failed == [state EXCEPT !.consecutive_failures = @ + 1]
              taken == SubSeq(scenario.action, 1,
                              Min(Len(scenario.action), config.max_actions_per_step))
              ran == RunActions(taken, state, <<>>, FALSE)
          IN  CASE scenario.kind = "raise" ->
                     /\ run' = [run EXCEPT !.pc = "except"]
                     /\ UNCHANGED <<state, history>>
                [] scenario.kind \in {"llm_failed", "no_actions"} ->
                     /\ state' = failed
                     /\ run' = [run EXCEPT !.pc = "while"]
                     /\ UNCHANGED history
                [] scenario.kind = "actions" ->
                     /\ state' = ran.state
                     /\ history' = Append(history,
                                          [ step_number |-> state.step_count,
                                            model_output |-> scenario.action,
                                            results |-> ran.results ])
                     /\ run' = [run EXCEPT !.pc = "while"]
    /\ UNCHANGED <<config, saved>>
    /\ AgentFrame

StepEnd == ExecuteStep(StepScenarios)

\* the statement after the loop, and return self._history
AfterLoop ==
    /\ run.pc = "after_loop"
    /\ state' = [state EXCEPT !.success = AfterLoopSuccess(state)]
    /\ run' = [run EXCEPT !.pc = "returned"]
    /\ UNCHANGED <<config, history, saved>>
    /\ AgentFrame

\* except Exception as e, and return self._history
RunExcept ==
    /\ run.pc = "except"
    /\ state' = [state EXCEPT !.error = Some(<<"g","e","t","_","s","t","a","t","e"," ","f","a","i","l","e","d">>), !.success = FALSE]
    /\ run' = [run EXCEPT !.pc = "returned"]
    /\ UNCHANGED <<config, history, saved>>
    /\ AgentFrame

\* run is called once more, with the same run_id and the same task
RunAgain ==
    /\ run.pc = "returned"
    /\ ~ run.later
    /\ run' = [run EXCEPT !.pc = "begin", !.later = TRUE, !.restored = FALSE,
                          !.earlier_done = state.done]
    /\ UNCHANGED <<config, state, history, saved>>
    /\ AgentFrame

AgentNext ==
    \/ RunBegin
    \/ LoopTest
    \/ PauseSave
    \/ Enter
    \/ Resume
    \/ SigInt
    \/ StepBegin
    \/ StepEnd
    \/ AfterLoop
    \/ RunExcept

\* everything but the user's Ctrl+C and a further call of run goes on when it
\* can: the awaits of run return, and a paused run is answered
AgentProgress ==
    RunBegin \/ LoopTest \/ PauseSave \/ Enter \/ Resume \/ StepBegin \/ StepEnd
        \/ AfterLoop \/ RunExcept

SpecAgent == AgentInit /\ [][AgentNext]_vars /\ WF_vars(AgentProgress)

(***************************************************************************)
(* Two calls of run for one run_id, with persistence, beginning without a  *)
(* state file.                                                             *)
(***************************************************************************)
ResumeInit ==
    /\ AgentInit
    /\ config.persistence /\ config.wait_for_stability
    /\ config.max_actions_per_step = 1
    /\ saved = None
    /\ run.signal_handler_installed

FewStepEnd == ExecuteStep(FewScenarios)

ResumeNext ==
    \/ RunBegin
    \/ LoopTest
    \/ PauseSave
    \/ Enter
    \/ Resume
    \/ SigInt
    \/ StepBegin
    \/ FewStepEnd
    \/ AfterLoop
    \/ RunAgain

SpecResume == ResumeInit /\ [][ResumeNext]_vars

(***************************************************************************)
(* The actions that load a URL, executed by a registry whose               *)
(* allowed_domains is set.                                                 *)
(***************************************************************************)
MaxLoads == 2

DomainLists ==
    { << <<"e","x","a","m","p","l","e",".","c","o","m">> >>, << <<"*",".","e","x","a","m","p","l","e",".","c","o","m">> >>,
      << <<"e","x","a","m","p","l","e",".","c","o","m">>, <<"*",".","e","x","a","m","p","l","e",".","c","o","m">> >>, << <<"h","t","t","p","s",":","/","/","E","x","a","m","p","l","e",".","c","o","m">> >>,
      << <<"e","x","*",".","c","o","m">> >>, << <<"g","o","o","g","l","e",".","c","o","m">> >> }

Urls ==
    { <<"h","t","t","p","s",":","/","/","e","x","a","m","p","l","e",".","c","o","m","/","a">>, <<"h","t","t","p","s",":","/","/","w","w","w",".","e","x","a","m","p","l","e",".","c","o","m">>, <<"h","t","t","p","s",":","/","/","a","p","i",".","e","x","a","m","p","l","e",".","c","o","m","/","x","?","q","=","1">>,
      <<"h","t","t","p","s",":","/","/","E","X","A","M","P","L","E",".","c","o","m",":","8","0","8","0","/">>, <<"h","t","t","p","s",":","/","/","e","v","i","l",".","c","o","m","/">>, <<"h","t","t","p","s",":","/","/","e","x","a","m","p","l","e",".","c","o","m",".","e","v","i","l",".","c","o","m","/">>,
      <<"h","t","t","p","s",":","/","/","e","x","a","m","p","l","e",".","c","o","m","@","e","v","i","l",".","c","o","m","/">>, <<"h","t","t","p","s",":","/","/","n","o","t","e","x","a","m","p","l","e",".","c","o","m","#","t","o","p">>, <<"e","x","a","m","p","l","e",".","c","o","m">>,
      <<"a","b","o","u","t",":","b","l","a","n","k">> }

Queries == { <<"h","e","i","m","d","a","l","l">>, <<"a"," ","b">> }

GuardInit ==
    /\ nodes = <<>>
    /\ serialized = None /\ again = None
    /\ ActIdle
    /\ RetryIdle /\ StateIdle /\ PointIdle /\ NodeIdle /\ BusIdle /\ AgentIdle /\ TabIdle /\ NetIdle /\ EmitIdle
    /\ allowed_domains \in DomainLists
    /\ loaded = <<>>
    /\ reply = None

GuardFrame ==
    UNCHANGED <<allowed_domains, domVars, actVars, retryVars, stateVars, pointVars, nodeVars,
                busVars, agentVars, tabVars, netVars, emitVars>>

\* a command that makes the browser load url, sent for the action by; when
\* the command fails, the except clause of the action gives the reply
Load(by, url, sends, done, failed) ==
    IF sends
    THEN /\ loaded' = Append(loaded, [by |-> by, url |-> url])
         /\ reply' = Ok(done, EmptyDict)
    ELSE /\ reply' = Fail(failed)
         /\ UNCHANGED loaded

\* allowed_domains and not is_url_allowed(url, allowed_domains)
Blocked(url) == allowed_domains # <<>> /\ ~ is_url_allowed(url, allowed_domains)

\* execute("navigate", {"url": url})
Navigate ==
    /\ Len(loaded) < MaxLoads
    /\ \E url \in Urls, sends \in BOOLEAN :
          IF Blocked(url)
          THEN /\ reply' = Fail(<<"N","a","v","i","g","a","t","i","o","n"," ","b","l","o","c","k","e","d",":"," ">> \o url)
               /\ UNCHANGED loaded
          ELSE Load("navigate", url, sends, <<"N","a","v","i","g","a","t","e","d"," ","t","o"," ">> \o url,
                    <<"N","a","v","i","g","a","t","i","o","n"," ","f","a","i","l","e","d",":"," ","t","i","m","e","o","u","t">>)
    /\ GuardFrame

\* execute("search", {"query": query})
Search ==
    /\ Len(loaded) < MaxLoads
    /\ \E query \in Queries, sends \in BOOLEAN :
          Load("search", SearchUrl(query), sends, <<"S","e","a","r","c","h","e","d"," ","f","o","r",":"," ">> \o query,
               <<"S","e","a","r","c","h"," ","f","a","i","l","e","d",":"," ","t","i","m","e","o","u","t">>)
    /\ GuardFrame

\* execute("new_tab", {"url": url}): Target.createTarget({"url": url})
NewTab ==
    /\ Len(loaded) < MaxLoads
    /\ \E url \in Urls, sends \in BOOLEAN :
          Load("new_tab", url, sends, <<"O","p","e","n","e","d"," ","n","e","w"," ","t","a","b",":"," ">> \o url,
               <<"F","a","i","l","e","d"," ","t","o"," ","o","p","e","n"," ","n","e","w"," ","t","a","b",":"," ","t","i","m","e","o","u","t">>)
    /\ GuardFrame

GuardNext ==
    \/ Navigate
    \/ Search
    \/ NewTab

SpecGuard == GuardInit /\ [][GuardNext]_vars

(***************************************************************************)
(* A started session and calls of create_tab, switch_tab and close_tab,    *)
(* with protocol commands that may fail.                                   *)
(***************************************************************************)
MaxTabCalls == 4

TabInit ==
    /\ nodes = <<>>
    /\ serialized = None /\ again = None
    /\ ActIdle
    /\ RetryIdle /\ StateIdle /\ PointIdle /\ NodeIdle /\ BusIdle /\ AgentIdle /\ GuardIdle /\ NetIdle /\ EmitIdle
    /\ browser = StartedSession
    /\ tab_reply = None
    /\ tab_calls = 0

TabFrame ==
    UNCHANGED <<domVars, actVars, retryVars, stateVars, pointVars, nodeVars, busVars,
                agentVars, guardVars, netVars, emitVars>>

\* the session takes what the call gives; tab_reply keeps the call, the
\* number of tabs tracked before it, and how it ended
Called(op, given) ==
    /\ browser' = given.session
    /\ tab_reply' = [op |-> op, tracked_before |-> Len(browser.tabs),
                     raised |-> given.raised, closed |-> given.closed]
    /\ tab_calls' = tab_calls + 1
    /\ TabFrame

CreateTab ==
    /\ tab_calls < MaxTabCalls
    /\ \E fails \in {"none", "Target.createTarget", "Target.attachToTarget", "enable"} :
          Called("create_tab", create_tab(browser, tab_calls + 1, fails))

SwitchTab ==
    /\ tab_calls < MaxTabCalls
    /\ \E target_id \in 0..MaxTabCalls, fails \in {"none", "Target.activateTarget"} :
          Called("switch_tab", switch_tab(browser, target_id, fails))

CloseTab ==
    /\ tab_calls < MaxTabCalls
    /\ \E target_id \in 0..MaxTabCalls,
          fails \in {"none", "Target.closeTarget", "Target.activateTarget"} :
          Called("close_tab", close_tab(browser, target_id, fails))

CloseTabAction ==
    /\ tab_calls < MaxTabCalls
    /\ \E tab_index \in -1..MaxTabCalls,
          fails \in {"none", "Target.closeTarget", "Target.activateTarget"} :
          Called("actions.close_tab", close_tab_action(browser, tab_index, fails))

TabNext ==
    \/ CreateTab
    \/ SwitchTab
    \/ CloseTab
    \/ CloseTabAction

SpecTabs == TabInit /\ [][TabNext]_vars

(***************************************************************************)
(* The watchdog under the network events of a page and a passing clock,    *)
(* with is_idle read and wait_for_idle called at any moment.               *)
(***************************************************************************)
MaxTime == 3

RequestIds == {"r1", "r2"}

RequestUrls == {<<"h","t","t","p","s",":","/","/","a",".","t","e","s","t","/","x">>, <<"d","a","t","a",":",",","x">>, <<"c","h","r","o","m","e","-","e","x","t","e","n","s","i","o","n",":","/","/","e","/","x">>}

\* net.life: where each request is ("new", "tracked" or "ignored" once
\* started, "ended"); net.last_event: the time of the latest start, finish
\* or failure of a tracked request, <<>> before any; net.waiting: the start
\* and timeout of a wait_for_idle in progress; net.reply: the last answer
NetInit ==
    /\ nodes = <<>>
    /\ serialized = None /\ again = None
    /\ ActIdle
    /\ RetryIdle /\ StateIdle /\ PointIdle /\ NodeIdle /\ BusIdle /\ AgentIdle
    /\ GuardIdle /\ TabIdle /\ EmitIdle
    /\ now = 0
    /\ \E idle_threshold \in {1, 2} : watch = Watchdog(idle_threshold, 0)
    /\ net = [ life |-> [r \in RequestIds |-> "new"], last_event |-> <<>>,
               waiting |-> <<>>, reply |-> <<>> ]

NetFrame ==
    UNCHANGED <<domVars, actVars, retryVars, stateVars, pointVars, nodeVars, busVars,
                agentVars, guardVars, tabVars, emitVars>>

\* time passes on the clock of the event loop
Tick ==
    /\ now < MaxTime
    /\ now' = now + 1
    /\ UNCHANGED <<watch, net>>
    /\ NetFrame

\* Network.requestWillBeSent
RequestStarted ==
    \E r \in RequestIds, url \in RequestUrls :
        /\ net.life[r] = "new"
        /\ watch' = on_request_started(watch, r, url, now)
        /\ net' = IF IgnoredUrl(url)
                  THEN [net EXCEPT !.life[r] = "ignored"]
                  ELSE [net EXCEPT !.life[r] = "tracked", !.last_event = <<now>>]
        /\ UNCHANGED now
        /\ NetFrame

\* the request r ends: its place in net.life, and the time if it was tracked
Ended(r) ==
    IF net.life[r] = "tracked"
    THEN [net EXCEPT !.life[r] = "ended", !.last_event = <<now>>]
    ELSE [net EXCEPT !.life[r] = "ended"]

\* Network.loadingFinished
RequestFinished ==
    \E r \in RequestIds :
        /\ net.life[r] \in {"tracked", "ignored"}
        /\ watch' = on_request_finished(watch, r, now)
        /\ net' = Ended(r)
        /\ UNCHANGED now
        /\ NetFrame

\* Network.loadingFailed
RequestFailed ==
    \E r \in RequestIds, error_text \in {"net::ERR_ABORTED", "net::ERR_FAILED"} :
        /\ net.life[r] \in {"tracked", "ignored"}
        /\ watch' = on_request_failed(watch, r, error_text, now)
        /\ net' = Ended(r)
        /\ UNCHANGED now
        /\ NetFrame

\* an answer of the watchdog, with the tracked requests pending and the
\* latest event of a tracked request at the moment it is given
IdleAnswer(by, idle) ==
    [ by |-> by, idle |-> idle, at |-> now,
      pending |-> {r \in RequestIds : net.life[r] = "tracked"},
      last_event |-> net.last_event, idle_threshold |-> watch.idle_threshold ]

\* the property is_idle is read
IsIdle ==
    /\ net' = [net EXCEPT !.reply = <<IdleAnswer("is_idle", is_idle(watch, now))>>]
    /\ UNCHANGED <<watch, now>>
    /\ NetFrame

\* wait_for_idle is called
WaitForIdle ==
    /\ net.waiting = <<>>
    /\ \E timeout \in {0, 2} :
          net' = [net EXCEPT !.waiting = <<[start |-> now, timeout |-> timeout, slept |-> TRUE]>>]
    /\ UNCHANGED <<watch, now>>
    /\ NetFrame

\* one turn of the loop of wait_for_idle: out of time it returns False, idle
\* it returns True, else it goes to sleep
WaitTurn ==
    /\ net.waiting # <<>>
    /\ net.waiting[1].slept
    /\ net' =
          IF ~ (now - net.waiting[1].start < net.waiting[1].timeout)
          THEN [net EXCEPT !.waiting = <<>>, !.reply = <<IdleAnswer("wait_for_idle", FALSE)>>]
          ELSE IF is_idle(watch, now)
          THEN [net EXCEPT !.waiting = <<>>, !.reply = <<IdleAnswer("wait_for_idle", TRUE)>>]
          ELSE [net EXCEPT !.waiting[1].slept = FALSE]
    /\ UNCHANGED <<watch, now>>
    /\ NetFrame

\* asyncio.sleep(0.1) of wait_for_idle ends
WaitSlept ==
    /\ net.waiting # <<>>
    /\ ~ net.waiting[1].slept
    /\ now < MaxTime
    /\ now' = now + 1
    /\ net' = [net EXCEPT !.waiting[1].slept = TRUE]
    /\ UNCHANGED watch
    /\ NetFrame

NetNext ==
    \/ Tick
    \/ RequestStarted
    \/ RequestFinished
    \/ RequestFailed
    \/ IsIdle
    \/ WaitForIdle
    \/ WaitTurn
    \/ WaitSlept

SpecNet == NetInit /\ [][NetNext]_vars

(***************************************************************************)
(* Several calls of emit in flight on one EventBus: awaited by the code    *)
(* outside, awaited by a handler of another emit, or scheduled as tasks by *)
(* emit_sync.  frames holds one stack of calls of emit for each coroutine  *)
(* that is in emit: a handler that awaits emit has its call above the one  *)
(* that called it.  A call that has returned is gone from its stack.       *)
(* Coroutines take turns wherever a handler is awaited.                    *)
(***************************************************************************)
MaxFrames == 3

\* the type of the events emitted here
EmittedTypes == {"NavigationEvent"}

EmitsInit ==
    /\ nodes = <<>>
    /\ serialized = None /\ again = None
    /\ ActIdle
    /\ RetryIdle /\ StateIdle /\ PointIdle /\ NodeIdle /\ AgentIdle
    /\ GuardIdle /\ TabIdle /\ NetIdle
    /\ handlers = <<>> /\ once_handlers = <<>> /\ registrations = 0
    /\ emitting = None /\ calls = <<>> /\ emits = 0
    /\ frames = <<>>
    /\ times_called = [ticket \in 1..MaxRegistrations |-> [once |-> FALSE, times |-> 0]]

EmitsFrame ==
    UNCHANGED <<domVars, actVars, retryVars, stateVars, pointVars, nodeVars, agentVars,
                guardVars, tabVars, netVars, emitting, calls>>

\* bus.once(event_type, handler) and bus.on(event_type, handler), by the code
\* outside or by a handler that is running
Register ==
    /\ registrations < MaxRegistrations
    /\ \E event_type \in EmittedTypes, handler \in {"on_a"}, once \in BOOLEAN :
          /\ times_called' = [times_called EXCEPT ![registrations + 1].once = once]
          /\ IF once
             THEN /\ once_handlers' = SetList(once_handlers, event_type,
                                              Append(ListOf(once_handlers, event_type),
                                                     Registered(event_type, handler, TRUE)))
                  /\ UNCHANGED handlers
             ELSE /\ handlers' = SetList(handlers, event_type,
                                         Append(ListOf(handlers, event_type),
                                                Registered(event_type, handler, FALSE)))
                  /\ UNCHANGED once_handlers
    /\ registrations' = registrations + 1
    /\ UNCHANGED <<frames, emits>>
    /\ EmitsFrame

\* the call of emit that the coroutine c is in
Top(c) == frames[c][Len(frames[c])]

\* the stacks without the one of the coroutine c
Gone(c) == SubSeq(frames, 1, c - 1) \o SubSeq(frames, c + 1, Len(frames))

\* the stack: a call that has returned leaves it
Pushed(below, frame) == IF frame.pc = "returned" THEN below ELSE Append(below, frame)

\* the stacks when the stack of coroutine c becomes this one: a coroutine
\* that has left emit is gone
With(c, emitstack) == IF emitstack = <<>> THEN Gone(c) ELSE [frames EXCEPT ![c] = emitstack]

\* emit from its first line to the loop: the lists are copied and the
\* one-time list is emptied with no await in between
Snapshot(event_type, by) ==
    LET regular == ListOf(handlers, event_type)
        once == ListOf(once_handlers, event_type)
    IN  [ frame |-> EmitFrame(event_type, by, AllHandlers(regular, once)),
          once_handlers |-> AfterSnapshot(once_handlers, event_type, once) ]

\* await bus.emit(event) by the code outside
EmitAwaited ==
    /\ emits < MaxFrames
    /\ \E event_type \in EmittedTypes :
          LET snapshot == Snapshot(event_type, "await")
          IN  /\ frames' = IF snapshot.frame.pc = "returned" THEN frames
                           ELSE Append(frames, <<snapshot.frame>>)
              /\ once_handlers' = snapshot.once_handlers
    /\ emits' = emits + 1
    /\ UNCHANGED <<handlers, registrations, times_called>>
    /\ EmitsFrame

\* await bus.emit(event) by a handler that is running
EmitNested ==
    /\ emits < MaxFrames
    /\ \E c \in DOMAIN frames, event_type \in EmittedTypes :
          /\ Top(c).pc = "in_handler"
          /\ LET snapshot == Snapshot(event_type, "await")
             IN  /\ frames' = [frames EXCEPT ![c] = Pushed(@, snapshot.frame)]
                 /\ once_handlers' = snapshot.once_handlers
    /\ emits' = emits + 1
    /\ UNCHANGED <<handlers, registrations, times_called>>
    /\ EmitsFrame

\* bus.emit_sync(event), by the code outside or by a running handler
EmitSync ==
    /\ emits < MaxFrames
    /\ \E event_type \in EmittedTypes : frames' = Append(frames, <<Scheduled(event_type)>>)
    /\ emits' = emits + 1
    /\ UNCHANGED <<handlers, once_handlers, registrations, times_called>>
    /\ EmitsFrame

\* the event loop starts a scheduled task: emit runs up to its loop
TaskBegins ==
    /\ \E c \in DOMAIN frames :
          /\ Top(c).pc = "scheduled"
          /\ LET snapshot == Snapshot(Top(c).event_type, "emit_sync")
             IN  /\ frames' = With(c, Pushed(<<>>, snapshot.frame))
                 /\ once_handlers' = snapshot.once_handlers
    /\ UNCHANGED <<handlers, registrations, times_called, emits>>
    /\ EmitsFrame

\* the loop of emit calls its next handler
HandlerCalled ==
    /\ \E c \in DOMAIN frames :
          /\ Top(c).pc = "loop"
          /\ frames' = [frames EXCEPT ![c][Len(frames[c])].pc = "in_handler"]
          /\ times_called' =
                [times_called EXCEPT ![Top(c).all_handlers[Top(c).next].ticket].times = @ + 1]
    /\ UNCHANGED <<handlers, once_handlers, registrations, emits>>
    /\ EmitsFrame

\* the handler returns or raises; the loop goes on, and emit returns after
\* the last handler
HandlerEnds ==
    /\ \E c \in DOMAIN frames :
          /\ Top(c).pc = "in_handler"
          /\ frames' =
                IF Top(c).next < Len(Top(c).all_handlers)
                THEN [frames EXCEPT ![c][Len(frames[c])] = [@ EXCEPT !.next = @ + 1, !.pc = "loop"]]
                ELSE With(c, SubSeq(frames[c], 1, Len(frames[c]) - 1))
    /\ UNCHANGED <<handlers, once_handlers, registrations, times_called, emits>>
    /\ EmitsFrame

EmitsNext ==
    \/ Register
    \/ EmitAwaited
    \/ EmitNested
    \/ EmitSync
    \/ TaskBegins
    \/ HandlerCalled
    \/ HandlerEnds

SpecEmits == EmitsInit /\ [][EmitsNext]_vars

(***************************************************************************)
(* Properties of serialize.                                                *)
(***************************************************************************)
\* text.split("\n"), with no line for an empty text
RECURSIVE TextLines(_)
TextLines(text) ==
    IF text = <<>> THEN <<>>
    ELSE LET first == SplitFirst(text, "\n")
         IN  IF Len(first) = Len(text) THEN <<first>>
             ELSE <<first>> \o
                  (IF Len(first) + 1 = Len(text) THEN << <<>> >>
                   ELSE TextLines(SubSeq(text, Len(first) + 2, Len(text))))

\* positions of the input list whose node is both visible and interactive
KeptPositions(ns) == {p \in 1..Len(ns) : is_visible(ns[p]) /\ is_interactive(ns[p])}

\* the position in the input list of the i-th (0-based) kept node
NthKept(ns, i) ==
    CHOOSE p \in KeptPositions(ns) : Cardinality({q \in KeptPositions(ns) : q < p}) = i

\* C1: for every node list, the SerializedDOM that serialize returns has
\* element_count equal to the number of selector_map entries, and the keys of
\* selector_map are exactly 0 .. element_count-1.
C1_DenseIndices ==
    serialized # None =>
        /\ serialized.element_count = Cardinality(DOMAIN serialized.selector_map)
        /\ DOMAIN serialized.selector_map = 0..(serialized.element_count - 1)

C1_Witness ==
    /\ serialized # None
    /\ serialized.element_count >= 2
    /\ Len(nodes) > serialized.element_count

\* C2: serialize includes a node iff it is visible and interactive, and index
\* i (the text line prefixed "[i]" and selector_map[i].backend_node_id) is the
\* i-th such node in the order of the input list.
C2_FilterAndOrder ==
    serialized # None =>
        LET kept == KeptPositions(nodes)
            lines == TextLines(serialized.text)
        IN  /\ serialized.element_count = Cardinality(kept)
            /\ DOMAIN serialized.selector_map = 0..(Cardinality(kept) - 1)
            /\ Len(lines) = Cardinality(kept)
            /\ \A i \in 0..(Cardinality(kept) - 1) :
                  LET node == nodes[NthKept(nodes, i)]
                      prefix == <<"[">> \o IntToStr(i) \o <<"]"," ">>
                  IN  /\ serialized.selector_map[i].backend_node_id
                            = node.backend_node_id
                      /\ serialized.selector_map[i].tag = node.node_name
                      /\ SubSeq(lines[i + 1], 1, Len(prefix)) = prefix
                      /\ SubSeq(lines[i + 1], Len(prefix) + 1, Len(lines[i + 1]))
                            = describe_node(node)

C2_Witness ==
    /\ serialized # None
    /\ Len(nodes) = 3
    /\ ~ is_visible(nodes[1]) /\ is_interactive(nodes[1])
    /\ is_visible(nodes[2]) /\ ~ is_interactive(nodes[2])
    /\ is_visible(nodes[3]) /\ is_interactive(nodes[3])
    /\ serialized.selector_map[0].backend_node_id = nodes[3].backend_node_id

StartsWith(prefix, s) ==
    Len(s) >= Len(prefix) /\ SubSeq(s, 1, Len(prefix)) = prefix

\* the positions of the mouse events of the given types in a command record
MouseEvents(cmds, types) ==
    {i \in DOMAIN cmds : cmds[i].m = "Input.dispatchMouseEvent" /\ cmds[i].what \in types}

MouseTypes == {"mouseMoved", "mousePressed", "mouseReleased"}

Returned == pc = "done" /\ outcome.kind = "return"

Succeeded == Returned /\ outcome.result.success

\* execute returned a failure whose error contains text
FailedWith(text) ==
    /\ Returned
    /\ ~ outcome.result.success
    /\ outcome.result.error # NoStr
    /\ Contains(text, outcome.result.error[1])

\* the scripted click is under way or has been made
ScriptedClick == pc \in {"js_click.resolve", "js_click.call"} \/ loc.js # "not_run"

\* execute reached an index action with a selector_map that lacks the index
InvalidIndexCall ==
    /\ pc # "idle"
    /\ call.name \in IndexActions
    /\ call.valid
    /\ session
    /\ dom_state # None
    /\ call.index \notin DOMAIN dom_state.selector_map

\* C3: an index action executed with an index that is not a key of the
\* selector_map returns a failed result whose error contains "Invalid element
\* index"; no command went to the browser and no second attempt was made.
C3_InvalidIndex ==
    InvalidIndexCall =>
        /\ FailedWith(<<"I","n","v","a","l","i","d"," ","e","l","e","m","e","n","t"," ","i","n","d","e","x">>)
        /\ sent = <<>>
        /\ ~ queried
        /\ attempt = 0

C3_Witness ==
    /\ InvalidIndexCall
    /\ call.name = "select_option"
    /\ call.index = MaxElems
    /\ DOMAIN dom_state.selector_map # {}
    /\ FailedWith(<<"I","n","v","a","l","i","d"," ","e","l","e","m","e","n","t"," ","i","n","d","e","x",":"," ">> \o Str(MaxElems))

\* C4: execute always returns to its caller; an ActionError raised by the
\* action comes back as a failed result carrying its message, any other
\* exception as a failed result whose error begins "System error".
C4_NoEscape ==
    pc = "done" =>
        /\ outcome.kind = "return"
        /\ (call.name = "custom" /\ call.valid /\ call.behaviour = "raise_ActionError")
              => outcome.result = Fail(<<"i","n","t","e","n","t","i","o","n","a","l"," ","a","c","t","i","o","n"," ","f","a","i","l","u","r","e">>)
        /\ (call.name = "custom" /\ call.valid /\ call.behaviour = "raise_RuntimeError")
              => /\ ~ outcome.result.success
                 /\ outcome.result.error = Some(<<"S","y","s","t","e","m"," ","e","r","r","o","r",":"," ","b","o","o","m">>)
        /\ (call.name \in IndexActions /\ call.valid /\ session /\ dom_state = None)
              => /\ ~ outcome.result.success
                 /\ StartsWith(<<"S","y","s","t","e","m"," ","e","r","r","o","r">>, outcome.result.error[1])

C4_Witness ==
    /\ pc = "done"
    /\ call.name = "focus"
    /\ call.valid /\ session /\ dom_state = None
    /\ outcome.kind = "return"
    /\ ~ outcome.result.success
    /\ StartsWith(<<"S","y","s","t","e","m"," ","e","r","r","o","r",":"," ","'","N","o","n","e","T","y","p","e","'"," ","o","b","j","e","c","t">>, outcome.result.error[1])

\* C5: once the computed pointer-events of the element is read as none, click
\* sends no mouse event; it makes the scripted click, and the click action
\* succeeds as soon as the scripted click has succeeded.
C5_PointerEventsNone ==
    (pc # "idle" /\ loc.pointer_events = "none") =>
        /\ MouseEvents(sent, MouseTypes) = {}
        /\ loc.moved = "unsent" /\ loc.pressed = "unsent" /\ loc.released = "unsent"
        /\ ScriptedClick
        /\ (call.name = "click" /\ loc.js = "ok") => Succeeded

C5_Witness ==
    /\ call # None
    /\ call.name = "click"
    /\ loc.pointer_events = "none"
    /\ loc.js = "ok"
    /\ Succeeded
    /\ MouseEvents(sent, MouseTypes) = {}

NoGeometry == loc.cq = "none" /\ loc.bm = "none" /\ loc.rect = "none"

\* C6: when content-quads, box-model and the script rect all gave no geometry,
\* click sends no mouse event and makes the scripted click; the click action
\* then succeeds exactly when the scripted click succeeded.
C6_NoGeometry ==
    (pc # "idle" /\ NoGeometry) =>
        /\ MouseEvents(sent, MouseTypes) = {}
        /\ ScriptedClick
        /\ (call.name = "click" /\ loc.js = "ok") => Succeeded
        /\ (call.name = "click" /\ pc = "done") =>
                (outcome.result.success <=> loc.js = "ok")

C6_Witness ==
    /\ call # None
    /\ call.name = "click"
    /\ NoGeometry
    /\ loc.js = "ok"
    /\ Succeeded

\* a dispatch of the physical click raised an exception other than a timeout
DispatchRaised ==
    loc.moved = "raised" \/ loc.pressed = "raised" \/ loc.released = "raised"

\* the wait for the answer to mousePressed or mouseReleased ran out
DispatchTimedOut == loc.pressed = "timeout" \/ loc.released = "timeout"

\* C7 as stated: once a dispatch of the physical click has raised or has
\* exceeded its timeout, click makes the scripted click.
C7_AsStated ==
    (pc # "idle" /\ (DispatchRaised \/ DispatchTimedOut)) => ScriptedClick

\* C7 (amended): a dispatch that raises anything but a timeout sends click to
\* the scripted click.  A timeout of mousePressed or mouseReleased is logged
\* and passed over: click goes on to the next dispatch, makes no scripted
\* click because of it, and the click action succeeds.
C7_DispatchFailure ==
    pc # "idle" =>
        /\ DispatchRaised => ScriptedClick
        /\ (loc.pressed = "timeout" /\ loc.released = "unsent")
              => pc = "dispatch.released"
        /\ (DispatchTimedOut /\ ~ DispatchRaised) =>
              /\ ~ ScriptedClick
              /\ (call.name = "click" /\ loc.released # "unsent")
                    => (pc = "click.return" \/ Succeeded)

C7_Witness ==
    /\ call # None
    /\ call.name = "click"
    /\ loc.moved = "ok" /\ loc.pressed = "timeout" /\ loc.released = "timeout"
    /\ loc.js = "not_run"
    /\ Succeeded

\* click is at, or past, the hit verification of a physical click
PointInUse ==
    pc \in {"click.verify.resolve", "click.verify.call", "dispatch.moved",
            "dispatch.pressed", "dispatch.released", "click.return"}

\* the points find_best_click_point gives for the element where it now is
PointsMeasuredNow ==
    { find_best_click_point(<<ElementQuad(page.scrolled)>>, v[1], v[2]) :
        v \in {PageViewport, DefaultViewport} }

\* every mouse event of the physical click went to the point click holds
DispatchedAtPoint ==
    \A i \in MouseEvents(sent, MouseTypes) :
        sent[i].by = "_dispatch_click" => <<sent[i].x, sent[i].y>> = loc.best

\* C8 as stated: the point click verifies and dispatches at was computed from
\* geometry resolved after the scroll.
C8_AsStated == PointInUse => loc.best_after_scroll

\* C8 (amended): the point is computed again from the content quads asked for
\* after the scroll whenever that call answers with quads; when it fails or
\* answers without quads, the point measured before the scroll is used.
C8_PointAfterScroll ==
    PointInUse =>
        /\ loc.requads = "found" =>
              (loc.best_after_scroll /\ loc.best \in PointsMeasuredNow)
        /\ loc.requads # "found" => ~ loc.best_after_scroll
        /\ DispatchedAtPoint

C8_Witness ==
    /\ pc = "dispatch.released"
    /\ loc.requads = "found"
    /\ page.scrolled
    /\ loc.best_after_scroll
    /\ loc.best = BoxCenter(ElementQuad(TRUE))
    /\ MouseEvents(sent, {"mousePressed"}) # {}
    /\ DispatchedAtPoint

\* C9: once the hit test has answered ok=false, click sends no mousePressed
\* and no mouseReleased and makes the scripted click; the click action fails
\* only if the scripted click fails.
C9_Intercepted ==
    (pc # "idle" /\ loc.hit_target = "intercepted") =>
        /\ MouseEvents(sent, {"mousePressed", "mouseReleased"}) = {}
        /\ loc.pressed = "unsent" /\ loc.released = "unsent"
        /\ ScriptedClick
        /\ (call.name = "click" /\ pc = "done") =>
                (outcome.result.success <=> loc.js = "ok")

C9_Witness ==
    /\ call # None
    /\ call.name = "click"
    /\ loc.hit_target = "intercepted"
    /\ loc.js = "ok"
    /\ Succeeded

\* C10: the box model is asked for only after content-quads answered without
\* quads, and the script rect only after the box model, too, gave none.
C10_StrategyOrder ==
    pc # "idle" =>
        /\ (pc = "click.box_model" \/ loc.bm # "untried")
              => loc.cq = "none"
        /\ (pc \in {"click.rect.resolve", "click.rect.call"} \/ loc.rect # "untried")
              => (loc.cq = "none" /\ loc.bm = "none")
        /\ pc \in {"click.box_model", "click.rect.resolve", "click.rect.call"}
              => loc.quads = <<>>

C10_Witness ==
    /\ pc = "click.scroll"
    /\ loc.cq = "none" /\ loc.bm = "none" /\ loc.rect = "found"
    /\ loc.quads # <<>>

(***************************************************************************)
(* Properties of with_retry                                                *)
(***************************************************************************)
\* s contains, in any letter case, one of the four texts
LooksTransient(s) ==
    \/ Contains(<<"n","o","t"," ","v","i","s","i","b","l","e">>, Lower(s))
    \/ Contains(<<"f","a","i","l","e","d"," ","t","o"," ","r","e","s","o","l","v","e">>, Lower(s))
    \/ Contains(<<"n","o"," ","g","e","o","m","e","t","r","y"," ","f","o","u","n","d">>, Lower(s))
    \/ Contains(<<"t","i","m","e","d"," ","o","u","t">>, Lower(s))

\* the failure message of what a call of action_fn gave
FailureMessage(o) == IF o.kind = "raise" THEN o.msg ELSE ErrorMsg(o.result)

\* the i-th call of action_fn was followed, or will be, by another
Retried(i) == i < Len(invoked) \/ pc # "done"

\* C11 as stated: action_fn is called again only after an attempt whose
\* failure message contains one of the four texts.
C11_AsStated ==
    \A i \in DOMAIN invoked : Retried(i) => LooksTransient(FailureMessage(invoked[i]))

\* C11 (amended): action_fn is called again only after an attempt that
\* returned a failure whose error contains one of the four texts, or that
\* raised an exception, whatever its text; a returned result of any other
\* kind ends the call at once and is what with_retry returns.
C11_RetryCondition ==
    \A i \in DOMAIN invoked :
        LET o == invoked[i] IN
        /\ Retried(i) =>
              \/ o.kind = "raise"
              \/ ~ o.result.success /\ LooksTransient(ErrorMsg(o.result))
        /\ (o.kind = "return" /\ ~ LooksTransient(ErrorMsg(o.result))) =>
              /\ i = Len(invoked)
              /\ pc = "done"
              /\ outcome = [kind |-> "return", result |-> o.result]

C11_Witness ==
    /\ Len(invoked) = 3
    /\ invoked[1].kind = "raise" /\ invoked[1].msg = <<"b","o","o","m">>
    /\ invoked[2].kind = "return"
    /\ invoked[2].result = Fail(<<"T","i","m","e","d"," ","O","u","t"," ","w","a","i","t","i","n","g"," ","f","o","r"," ","r","e","s","p","o","n","s","e">>)
    /\ invoked[3].kind = "return"
    /\ pc = "done"
    /\ outcome.result = Fail(<<"o","p","t","i","o","n"," ","n","o","t"," ","f","o","u","n","d">>)

\* C12: with_retry calls action_fn at most max_retries + 1 times, three times
\* with the default; once that many calls were made, whatever they gave, it
\* has returned an ActionResult to its caller.
C12_BoundedAttempts ==
    /\ Len(invoked) <= call.max_retries + 1
    /\ attempt <= call.max_retries
    /\ call.max_retries = DEFAULT_MAX_RETRIES => Len(invoked) <= 3
    /\ Len(invoked) = call.max_retries + 1 =>
          /\ pc = "done"
          /\ outcome.kind = "return"
          /\ outcome.result.success \in BOOLEAN
    /\ pc = "done" => outcome.kind = "return"

C12_Witness ==
    /\ call.max_retries = DEFAULT_MAX_RETRIES
    /\ Len(invoked) = 3
    /\ \A i \in 1..3 : invoked[i].kind = "raise"
    /\ pc = "done"
    /\ outcome.kind = "return"
    /\ ~ outcome.result.success

\* every call of action_fn made so far returned a failure with one of the
\* four texts in its error
AllRetryable ==
    \A i \in DOMAIN invoked :
        /\ invoked[i].kind = "return"
        /\ ~ invoked[i].result.success
        /\ LooksTransient(ErrorMsg(invoked[i].result))

EndsWith(suffix, s) ==
    Len(s) >= Len(suffix) /\ SubSeq(s, Len(s) - Len(suffix) + 1, Len(s)) = suffix

\* C13: when every attempt returned a retryable failure, with_retry returns
\* one failed result; its error is "Failed after N attempts", then " on " and
\* the element context when one was given, then ": " and the error of the
\* last attempt, not that of an earlier one.
C13_AggregatedFailure ==
    (pc = "done" /\ AllRetryable) =>
        LET last == ErrorMsg(invoked[Len(invoked)].result)
            ctx == call.element_context
        IN  /\ Len(invoked) = call.max_retries + 1
            /\ outcome.kind = "return"
            /\ ~ outcome.result.success
            /\ outcome.result.error # NoStr
            /\ outcome.result.error[1] =
                   <<"F","a","i","l","e","d"," ","a","f","t","e","r"," ">> \o Str(call.max_retries + 1) \o <<" ","a","t","t","e","m","p","t","s">>
                   \o (IF ctx = <<>> THEN <<>> ELSE <<" ","o","n"," ">> \o ctx) \o <<":"," ">> \o last
            /\ Contains(ctx, outcome.result.error[1])
            /\ EndsWith(last, outcome.result.error[1])
            /\ last_error = Some(last)

C13_Witness ==
    /\ pc = "done"
    /\ Len(invoked) = 3
    /\ AllRetryable
    /\ invoked[1].result = Fail(<<"E","l","e","m","e","n","t"," ","3"," ","n","o","t"," ","v","i","s","i","b","l","e">>)
    /\ invoked[3].result = Fail(<<"T","i","m","e","d"," ","O","u","t"," ","w","a","i","t","i","n","g"," ","f","o","r"," ","r","e","s","p","o","n","s","e">>)
    /\ outcome.result.error =
          Some(<<"F","a","i","l","e","d"," ","a","f","t","e","r"," ","3"," ","a","t","t","e","m","p","t","s"," ","o","n"," ","e","l","e","m","e","n","t"," ","0"," ","(","A",")",":"," ","T","i","m","e","d"," ","O","u","t"," ","w","a","i","t","i","n","g"," ","f","o","r"," ","r","e","s","p","o","n","s","e">>)
    /\ ~ Contains(<<"n","o","t"," ","v","i","s","i","b","l","e">>, outcome.result.error[1])

(***************************************************************************)
(* Properties of get_state and _build_tree                                 *)
(***************************************************************************)
\* what gather receives from coroutine c in this run
Answer(c) == IF c \in cdp.fails THEN EmptyDict ELSE cdp.answers[c]

\* the nodes the snapshot gives when the accessibility tree is at hand
NodesWithAx == build_tree(cdp.answers[1], cdp.answers[2], cdp.answers[3])

\* C14: get_state returns, and raises nothing, whichever of its three calls
\* fail; when the snapshot call failed the result has element_count 0, an
\* empty text and an empty selector_map; when the accessibility call failed
\* the snapshot's nodes are all built, each with empty ax_name and ax_role.
C14_BestEffort ==
    /\ pc = "done" => outcome.kind = "return"
    /\ (pc = "done" /\ 1 \in cdp.fails) =>
          /\ serialized.element_count = 0
          /\ serialized.text = <<>>
          /\ DOMAIN serialized.selector_map = {}
    /\ (pc = "done" /\ 2 \in cdp.fails /\ 1 \notin cdp.fails) =>
          /\ Len(nodes) = Len(NodesWithAx)
          /\ \A p \in DOMAIN nodes :
                /\ nodes[p].ax_name = <<>>
                /\ nodes[p].ax_role = <<>>
                /\ nodes[p].backend_node_id = NodesWithAx[p].backend_node_id

C14_Witness ==
    /\ pc = "done"
    /\ cdp.fails = {2}
    /\ Len(nodes) = 2
    /\ nodes[1].node_name = <<"B","U","T","T","O","N">>
    /\ NodesWithAx[1].ax_role = <<"b","u","t","t","o","n">>
    /\ nodes[1].ax_role = <<>>
    /\ serialized.element_count = 1

\* C15: get_state builds its result only when all three coroutines have
\* completed, and the SerializedDOM it returns is the one the three answers
\* determine, in whatever order the coroutines completed.
C15_OrderIndependent ==
    pc = "done" =>
        /\ Len(order) = 3
        /\ {order[p] : p \in DOMAIN order} = Coroutines
        /\ serialized = Fuse(Answer(1), Answer(2), Answer(3)).serialized
        /\ nodes = Fuse(Answer(1), Answer(2), Answer(3)).tree

C15_Witness ==
    /\ pc = "done"
    /\ order = <<3, 2, 1>>
    /\ cdp.fails = {}
    /\ serialized.element_count = 2
    /\ serialized.scroll_info.y = 120

\* the node names of the kinds that can never be interactive
NeverInteractive ==
    { <<"#","t","e","x","t">>, <<"#","c","o","m","m","e","n","t">>, <<"s","c","r","i","p","t">>, <<"s","t","y","l","e">>, <<"m","e","t","a">>, <<"l","i","n","k">>, <<"h","e","a","d">> }

\* C16 as stated: no node named #text, #comment, SCRIPT, STYLE, META, LINK or
\* HEAD, in any letter case, is in the node list _build_tree returns.
C16_AsStated ==
    \A p \in DOMAIN nodes : Lower(nodes[p].node_name) \notin NeverInteractive

(***************************************************************************)
(* Properties of Element.fill, Element.focus and Element.hover             *)
(***************************************************************************)
FillFocusLabels ==
    {"fill.focus", "fill.focus.dom", "fill.focus.js.resolve", "fill.focus.js.call",
     "fill.focus.click"}

FillClearLabels ==
    {"fill.clear.keyboard", "fill.clear.box", "fill.clear.triple_click",
     "fill.clear.js.resolve", "fill.clear.js.call"}

\* the stage of fill a state is in: 1 scroll, 2 focus, 3 clear, 4 insert, and
\* 0 when no fill is under way; an operation fill awaits belongs to the stage
\* it returns to
FillStage(at, stk) ==
    IF stk # <<>> /\ stk[Len(stk)] = "fill.focus" THEN 1
    ELSE IF stk # <<>> /\ stk[Len(stk)] = "fill.clear" THEN 2
    ELSE IF stk # <<>> THEN 0
    ELSE IF at = "fill.scroll" THEN 1
    ELSE IF at \in FillFocusLabels THEN 2
    ELSE IF at = "fill.clear" \/ at \in FillClearLabels THEN 3
    ELSE IF at = "fill.insert" THEN 4
    ELSE 0

\* the number of Input.insertText commands in a command record
Inserts(cmds) == Cardinality({i \in DOMAIN cmds : cmds[i].m = "Input.insertText"})

\* one step of a type_text call, from stage s to stage t
FillStep(s, t) ==
    /\ \/ t = s
       \/ s = 0 /\ t = 1
       \/ s = 1 /\ t \in {2, 0}
       \/ s = 2 /\ t \in {3, 0}
       \/ s = 3 /\ t = 4
       \/ s = 4 /\ t = 0
    /\ (s = 2 /\ t = 3) =>
          \/ loc'.focus_dom = "ok"
          \/ loc'.focus_js = "ok"
          \/ /\ stack # <<>>
             /\ loc'.focus_dom = "failed" /\ loc'.focus_js = "failed"
    /\ (pc' = "fill.focus.click" \/ (t = 2 /\ stack' # <<>>)) =>
          (loc'.focus_dom = "failed" /\ loc'.focus_js = "failed")
    /\ pc' \in FillClearLabels => call.clear
    /\ Inserts(sent') > Inserts(sent) =>
          /\ s = 4
          /\ Inserts(sent') = 1
          /\ call.text # <<>>
    /\ (s = 4 /\ call.text # <<>>) => Inserts(sent') = 1
    /\ (s = 4 /\ call.text = <<>>) => Inserts(sent') = 0

FocusLabels == {"focus.describe", "focus.dom", "focus.js.resolve", "focus.js.call"}

\* this step is Element.focus raising, in a call of the focus action
FocusRaises ==
    /\ call # None /\ call.name = "focus"
    /\ pc \in FocusLabels
    /\ pc' = "done"
    /\ ~ outcome'.result.success

\* C18 as stated: Element.focus raises only with the native focus and the
\* scripted focus both failed.
C18_AsStated ==
    [][ FocusRaises => (loc'.focus_dom = "failed" /\ loc'.focus_js = "failed") ]_vars

\* one step of Element.focus
FocusStep ==
    /\ pc = "focus.describe" => pc' \in {"focus.dom", "done"}
    /\ pc' \in {"focus.js.resolve", "focus.js.call"} => loc'.focus_dom = "failed"
    /\ FocusRaises =>
          \/ /\ pc = "focus.describe"
             /\ loc'.focus_dom = "untried" /\ loc'.focus_js = "untried"
             /\ \A i \in DOMAIN sent' : sent'[i].by # "focus"
          \/ loc'.focus_dom = "failed" /\ loc'.focus_js = "failed"
    /\ (pc' = "done" /\ outcome'.result.success) =>
          \/ loc'.focus_dom = "ok" /\ loc'.focus_js = "untried"
          \/ loc'.focus_dom = "failed" /\ loc'.focus_js = "ok"

\* C18 (amended): Element.focus first asks DOM.describeNode for the node, and
\* raises at once, with no focus attempted, when that call raises.  Otherwise
\* it attempts DOM.focus and, only when that fails, the scripted focus; past
\* the lookup it raises only with both failed, and it returns as soon as one
\* of them has succeeded.
C18_FocusFallback ==
    [][ (call # None /\ call.name = "focus" /\ pc \in FocusLabels) => FocusStep ]_vars

C18_Witness ==
    /\ call # None
    /\ call.name = "focus"
    /\ FailedWith(<<"F","o","c","u","s"," ","f","a","i","l","e","d",":"," ","T","i","m","e","d"," ","o","u","t"," ","w","a","i","t","i","n","g"," ","f","o","r"," ","r","e","s","p","o","n","s","e">>)
    /\ loc.focus_dom = "failed" /\ loc.focus_js = "failed"
    /\ \E i, j \in DOMAIN sent :
          /\ i < j
          /\ sent[i].m = "DOM.focus" /\ sent[i].by = "focus"
          /\ sent[j].m = "Runtime.callFunctionOn" /\ sent[j].by = "focus"

\* the middle of the diagonal of a rectangular quad
QuadMiddle(q) == << (q[1] + q[5]) \div 2, (q[2] + q[6]) \div 2 >>

\* the commands that are input events
InputEvents(cmds) ==
    {i \in DOMAIN cmds :
        cmds[i].m \in {"Input.dispatchMouseEvent", "Input.dispatchKeyEvent",
                       "Input.insertText"}}

\* the current attempt of hover ended with no bounding box resolved
NoBoundingBox ==
    \/ /\ pc = "with_retry.sleep"
       /\ Contains(<<"E","l","e","m","e","n","t"," ">> \o Str(BackendId) \o <<" ","n","o","t"," ","v","i","s","i","b","l","e">>, last_error[1])
    \/ FailedWith(<<"E","l","e","m","e","n","t"," ">> \o Str(BackendId) \o <<" ","n","o","t"," ","v","i","s","i","b","l","e">>)

\* C19: the only input event a hover sends is one mouseMoved, at the centre
\* of the element's bounding box; it sends no mousePressed and no
\* mouseReleased.  An attempt in which no bounding box was resolved sends no
\* input event and fails.
C19_HoverMoveOnly ==
    (call # None /\ call.name = "hover" /\ pc # "idle") =>
        /\ \A i \in InputEvents(sent) :
              /\ sent[i].m = "Input.dispatchMouseEvent"
              /\ sent[i].what = "mouseMoved"
              /\ <<sent[i].x, sent[i].y>> = QuadMiddle(ElementQuad(page.scrolled))
        /\ Cardinality(InputEvents(sent)) <= 1
        /\ MouseEvents(sent, {"mousePressed", "mouseReleased"}) = {}
        /\ Succeeded => Cardinality(MouseEvents(sent, {"mouseMoved"})) = 1
        /\ (pc \in {"with_retry.sleep", "done"} /\ dom_state # None
            /\ call.index \in DOMAIN dom_state.selector_map /\ call.valid /\ session
            /\ NoBoundingBox) =>
              /\ InputEvents(sent) = {}
              /\ pc = "done" => ~ outcome.result.success

C19_Witness ==
    /\ call # None
    /\ call.name = "hover"
    /\ Succeeded
    /\ page.scrolled
    /\ MouseEvents(sent, {"mouseMoved"}) # {}
    /\ \A i \in MouseEvents(sent, {"mouseMoved"}) : <<sent[i].x, sent[i].y>> = <<20, 45>>

(***************************************************************************)
(* Properties of Element._find_best_click_point                            *)
(***************************************************************************)
\* C20: for every list of quads, empty, too short or wholly outside the
\* viewport included, and every viewport of width and height at least 1,
\* _find_best_click_point returns a point (x, y) with 0 <= x <= width - 1 and
\* 0 <= y <= height - 1.
C20_PointInViewport ==
    (best_point # None /\ measured.vw >= 1 /\ measured.vh >= 1) =>
        /\ 0 <= best_point.x /\ best_point.x <= measured.vw - 1
        /\ 0 <= best_point.y /\ best_point.y <= measured.vh - 1

C20_Witness ==
    /\ best_point # None
    /\ Len(measured.quads) = 2
    /\ measured.quads[1] = <<1, 2, 3, 4>>
    /\ measured.quads[2] = <<500, 600, 520, 600, 520, 610, 500, 610>>
    /\ measured.vw = 1 /\ measured.vh = 100
    /\ best_point = [x |-> 0, y |-> 50]

\* the quads with the numbers of four vertices
WholeQuads == {p \in DOMAIN measured.quads : Len(measured.quads[p]) >= 8}

Positive(n) == IF n > 0 THEN n ELSE 0

\* the area of the part of quad q's box that lies in the viewport, in squares
\* of 1/unit of a pixel
ClippedArea(q) ==
    LET u == measured.unit
        xs == {q[1], q[3], q[5], q[7]}
        ys == {q[2], q[4], q[6], q[8]}
    IN  Positive(MinOf({measured.vw * u, MaxOf(xs)}) - MaxOf({0, MinOf(xs)}))
        * Positive(MinOf({measured.vh * u, MaxOf(ys)}) - MaxOf({0, MinOf(ys)}))

\* the whole number of the fraction num / den once brought into 0..hi
Clamped(num, den, hi) ==
    CHOOSE r \in 0..hi :
        \/ num >= hi * den /\ r = hi
        \/ num <= 0 /\ r = 0
        \/ 0 < num /\ num < hi * den /\ r * den <= num /\ num < (r + 1) * den

\* the mean of quad q's vertices, brought into the viewport
PointOf(q) ==
    LET xs == [i \in 1..((Len(q) + 1) \div 2) |-> q[2 * i - 1]]
        ys == [i \in 1..(Len(q) \div 2) |-> q[2 * i]]
    IN  [ x |-> Clamped(SumSeq(xs), Len(xs) * measured.unit, measured.vw - 1),
          y |-> Clamped(SumSeq(ys), Len(ys) * measured.unit, measured.vh - 1) ]

CutArea(p) == ClippedArea(measured.quads[p]) \div (measured.unit * measured.unit)

ClearingFailed ==
    /\ call # None
    /\ call.name = "type_text"
    /\ call.valid
    /\ call.clear
    /\ loc.clear = "failed"

TextInserted == \E i \in DOMAIN sent : sent[i].m = "Input.insertText"

\* C36 as stated: when clearing was asked for and every clearing strategy has
\* failed, fill does not insert the text and the type action reports failure.
C36_AsStated ==
    ClearingFailed =>
        /\ ~ TextInserted
        /\ pc = "done" => (outcome.kind = "return" /\ ~ outcome.result.success)

(***************************************************************************)
(* Properties of DOMNode's properties and of generate.                     *)
(***************************************************************************)
\* the subjects on which the property of that name has been read
HasRead(name) == {i \in DOMAIN props : name \in DOMAIN props[i]}

\* the box has that side and it is greater than 0
PositiveSide(box, side) == side \in DOMAIN box /\ box[side] > 0

\* C22: is_visible is true if and only if a bounding box is present and both
\* its width and its height are greater than 0.
C22_Visible ==
    \A i \in HasRead("is_visible") :
        props[i].is_visible <=>
            /\ subjects[i].bounding_box # None
            /\ PositiveSide(subjects[i].bounding_box, "width")
            /\ PositiveSide(subjects[i].bounding_box, "height")

C22_Witness ==
    /\ 1 \in HasRead("is_visible")
    /\ subjects[1].bounding_box = Box(3, 0)
    /\ props[1].is_visible = FALSE

HasAttr(node, key) == key \in DOMAIN node.attributes

\* six of the seven conditions of interactivity
PlainlyInteractive(node) ==
    \/ Upper(node.node_name) \in interactive_tags
    \/ node.ax_role \in interactive_roles
    \/ HasAttr(node, <<"r","o","l","e">>) /\ node.attributes[<<"r","o","l","e">>] \in interactive_roles
    \/ \E handler \in event_handlers : HasAttr(node, handler)
    \/ HasAttr(node, <<"t","a","b","i","n","d","e","x">>)
    \/ /\ HasAttr(node, <<"s","t","y","l","e">>)
       /\ Contains(<<"c","u","r","s","o","r">>, node.attributes[<<"s","t","y","l","e">>])
       /\ Contains(<<"p","o","i","n","t","e","r">>, node.attributes[<<"s","t","y","l","e">>])

\* C23 as stated: is_interactive is true exactly when one of the seven
\* conditions holds, the fourth being a contenteditable attribute whose value
\* is neither "false" nor empty.
C23_AsStated ==
    \A i \in HasRead("is_interactive") :
        props[i].is_interactive <=>
            \/ PlainlyInteractive(subjects[i])
            \/ /\ HasAttr(subjects[i], <<"c","o","n","t","e","n","t","e","d","i","t","a","b","l","e">>)
               /\ subjects[i].attributes[<<"c","o","n","t","e","n","t","e","d","i","t","a","b","l","e">>] \notin {<<"f","a","l","s","e">>, <<>>}

\* C23 (amended): is_interactive is true exactly when one of the seven
\* conditions holds, the fourth being a contenteditable attribute whose value
\* is not empty and, with its letters in lower case, is not "false".
C23_Interactive ==
    \A i \in HasRead("is_interactive") :
        props[i].is_interactive <=>
            \/ PlainlyInteractive(subjects[i])
            \/ /\ HasAttr(subjects[i], <<"c","o","n","t","e","n","t","e","d","i","t","a","b","l","e">>)
               /\ subjects[i].attributes[<<"c","o","n","t","e","n","t","e","d","i","t","a","b","l","e">>] # <<>>
               /\ Lower(subjects[i].attributes[<<"c","o","n","t","e","n","t","e","d","i","t","a","b","l","e">>]) # <<"f","a","l","s","e">>

C23_Witness ==
    /\ 1 \in HasRead("is_interactive")
    /\ subjects[1].node_name = <<"S","P","A","N">>
    /\ subjects[1].ax_role = <<"g","e","n","e","r","i","c">>
    /\ subjects[1].attributes = Dict1(<<"t","a","b","i","n","d","e","x">>, <<>>)
    /\ props[1].is_interactive = TRUE

\* the class tokens of a node
ClassTokens(node) == Split(Get(node.attributes, <<"c","l","a","s","s">>))

\* how many times the token stands in the list
Occurrences(token, tokens) == Cardinality({p \in DOMAIN tokens : tokens[p] = token})

\* the two lists hold the same tokens, each as many times, but for the
\* tokens that Dynamic sets aside
SameTokensBut(Dynamic(_), ta, tb) ==
    \A t \in {ta[p] : p \in DOMAIN ta} \cup {tb[p] : p \in DOMAIN tb} :
        ~ Dynamic(t) => Occurrences(t, ta) = Occurrences(t, tb)

\* the same tag, role and attributes, the value of class set aside
AlikeButClass(a, b) ==
    /\ a.node_name = b.node_name
    /\ a.ax_role = b.ax_role
    /\ DOMAIN a.attributes = DOMAIN b.attributes
    /\ \A k \in DOMAIN a.attributes \ {<<"c","l","a","s","s">>} : a.attributes[k] = b.attributes[k]

\* the token is one of the words of the fixed list
ListedWord(t) == t \in dynamic_patterns

\* the token, in lower case, contains one of the words of the fixed list
HoldsListedWord(t) == \E word \in dynamic_patterns : Contains(word, Lower(t))

\* two subjects whose stable_hash has been read
HashedPair == Len(subjects) = 2 /\ HasRead("stable_hash") = {1, 2}

\* what C24 says of two nodes, for a given reading of "dynamic token"
HashesAgree(Dynamic(_)) ==
    HashedPair =>
        LET ta == ClassTokens(subjects[1])
            tb == ClassTokens(subjects[2])
        IN  /\ (AlikeButClass(subjects[1], subjects[2]) /\ SameTokensBut(Dynamic, ta, tb))
                  => props[1].stable_hash = props[2].stable_hash
            /\ ~ SameTokensBut(Dynamic, ta, tb)
                  => props[1].stable_hash # props[2].stable_hash

\* C24 as stated: two nodes alike but for class tokens that are words of the
\* dynamic list have the same stable_hash, and two nodes that differ in a
\* class token that is no such word have different ones.
C24_AsStated == HashesAgree(ListedWord)

\* C24 (amended): a class token is dynamic when, in lower case, it contains a
\* word of the list.  Two nodes alike but for dynamic class tokens have the
\* same stable_hash, and two nodes that differ in a class token that is not
\* dynamic have different ones.
C24_StableHash == HashesAgree(HoldsListedWord)

C24_Witness ==
    /\ HashedPair
    /\ subjects[1].attributes = Dict2(<<"i","d">>, <<"x">>, <<"c","l","a","s","s">>, <<"b","t","n"," ","i","s","-","a","c","t","i","v","e">>)
    /\ subjects[2].attributes = Dict2(<<"i","d">>, <<"x">>, <<"c","l","a","s","s">>, <<"b","t","n">>)
    /\ props[1].stable_hash = props[2].stable_hash
    /\ props[1].stable_hash = Sha256Int(<<"(","'","B","U","T","T","O","N","'",","," ","(","(","'","c","l","a","s","s","'",","," ","'","b","t","n","'",")",","," ","(","'","i","d","'",","," ","'","x","'",")",")",","," ","'","'",")">>)

\* the text before the first "?" of s, all of s when it has none
BeforeQuery(s) ==
    LET marks == {p \in DOMAIN s : s[p] = "?"}
    IN  IF marks = {} THEN s
        ELSE SubSeq(s, 1, (CHOOSE p \in marks : \A q \in marks : p <= q) - 1)

\* s without the slashes it ends with
WithoutEndSlashes(s) ==
    LET ends == {n \in 0..Len(s) : (n = 0 \/ s[n] # "/") /\ \A p \in (n + 1)..Len(s) : s[p] = "/"}
    IN  SubSeq(s, 1, CHOOSE n \in ends : TRUE)

IsAnchor(node) == Upper(node.node_name) = <<"A">>

\* the selector set of subject i holds the CSS selector "#X" for its id X
HasIdSelector(i) ==
    Get(subjects[i].attributes, <<"i","d">>) # <<>> =>
        /\ "css_id" \in DOMAIN props[i].selectors
        /\ props[i].selectors["css_id"] = <<"#">> \o subjects[i].attributes[<<"i","d">>]

\* C26 as stated: a node with a non-empty id X has the selector "#X", and an
\* anchor with an href has an href selector built from the href as it is
\* before its first "?".
C26_AsStated ==
    \A i \in HasRead("selectors") :
        /\ HasIdSelector(i)
        /\ (IsAnchor(subjects[i]) /\ Get(subjects[i].attributes, <<"h","r","e","f">>) # <<>>) =>
              /\ "href" \in DOMAIN props[i].selectors
              /\ props[i].selectors["href"]
                    = <<"a","[","h","r","e","f","*","=","\"">> \o BeforeQuery(subjects[i].attributes[<<"h","r","e","f">>]) \o <<"\"","]">>

\* C26 (amended): a node with a non-empty id X has the selector "#X".  For an
\* anchor with an href, the href is cut before its first "?" and the slashes
\* at the end of what is left are removed; when nothing is left there is no
\* href selector, and otherwise the href selector and its XPath variant are
\* built from exactly that text.
C26_Selectors ==
    \A i \in HasRead("selectors") :
        /\ HasIdSelector(i)
        /\ (IsAnchor(subjects[i]) /\ Get(subjects[i].attributes, <<"h","r","e","f">>) # <<>>) =>
              LET href == WithoutEndSlashes(BeforeQuery(subjects[i].attributes[<<"h","r","e","f">>]))
              IN  IF href = <<>>
                  THEN DOMAIN props[i].selectors \cap {"href", "href_xpath"} = {}
                  ELSE /\ {"href", "href_xpath"} \subseteq DOMAIN props[i].selectors
                       /\ props[i].selectors["href"] = <<"a","[","h","r","e","f","*","=","\"">> \o href \o <<"\"","]">>
                       /\ props[i].selectors["href_xpath"]
                             = <<"/","/","a","[","c","o","n","t","a","i","n","s","(","@","h","r","e","f",","," ","'">> \o href \o <<"'",")","]">>

C26_Witness ==
    /\ 1 \in HasRead("selectors")
    /\ subjects[1].node_name = <<"A">>
    /\ subjects[1].attributes = Dict1(<<"h","r","e","f">>, <<"/","a","/","b","?","x","=","1">>)
    /\ props[1].selectors["href"] = <<"a","[","h","r","e","f","*","=","\"","/","a","/","b","\"","]">>

(***************************************************************************)
(* Properties of EventBus.emit.                                            *)
(***************************************************************************)
\* every handler emit called was registered for the type of the event
CalledForType ==
    \A p \in DOMAIN calls : calls[p].entry.event_type = emitting.event_type

\* C27 as stated: emit calls the handlers registered for the event's type in
\* the order in which they were registered.
C27_AsStated ==
    /\ CalledForType
    /\ \A p, q \in DOMAIN calls :
          p < q => calls[p].entry.ticket < calls[q].entry.ticket

\* C27 (amended): emit calls the handlers registered with on for the event's
\* type, in the order in which they were registered, and after them the
\* handlers registered with once for that type, in the order in which those
\* were registered.
C27_EmitOrder ==
    /\ CalledForType
    /\ \A p, q \in DOMAIN calls :
          p < q =>
             /\ ~ (calls[p].entry.once /\ ~ calls[q].entry.once)
             /\ calls[p].entry.once = calls[q].entry.once
                   => calls[p].entry.ticket < calls[q].entry.ticket

C27_Witness ==
    /\ Len(calls) = 2
    /\ ~ calls[1].entry.once /\ calls[1].entry.ticket = 2
    /\ calls[2].entry.once /\ calls[2].entry.ticket = 1

\* C28: an exception raised by a handler does not leave emit, and emit returns
\* only after it has called every handler it had found for the event's type,
\* those after the failing one included; its results are those of the handlers
\* that returned.
C28_HandlerFailure ==
    emitting # None =>
        /\ emitting.pc \in {"loop", "returned"}
        /\ \A p \in DOMAIN calls : calls[p].entry = emitting.all_handlers[p]
        /\ emitting.pc = "loop" => Len(calls) = emitting.next - 1
        /\ emitting.pc = "returned" =>
              /\ Len(calls) = Len(emitting.all_handlers)
              /\ emitting.results
                    = [p \in 1..Len(emitting.results) |->
                          SelectSeq(calls, LAMBDA c : ~ c.raised)[p].entry.handler]
              /\ Len(emitting.results) = Len(SelectSeq(calls, LAMBDA c : ~ c.raised))

C28_Witness ==
    /\ emitting # None
    /\ emitting.pc = "returned"
    /\ Len(calls) = 2
    /\ calls[1].raised /\ ~ calls[2].raised
    /\ emitting.results = <<calls[2].entry.handler>>

(***************************************************************************)
(* Properties of Agent.run.                                                *)
(***************************************************************************)
\* a step is about to be executed, or waits for the pause before it to end
StepStarting == run.pc \in {"step", "pause.save", "pause.wait"}

\* the conditions under which run goes into a step
MayStep ==
    /\ ~ state.done
    /\ state.step_count < config.max_steps
    /\ state.consecutive_failures < config.max_consecutive_failures

\* every step has been counted, and the count, resumed steps included, is
\* within max_steps once the run has made a step
StepsCounted ==
    /\ state.step_count = run.resumed_at + run.steps
    /\ run.steps > 0 => state.step_count <= config.max_steps
    /\ run.steps <= config.max_steps

EndedByDone(success) ==
    /\ run.pc = "returned"
    /\ state.done
    /\ history # <<>>
    /\ LET item == history[Len(history)]
           last == Len(item.results)
       IN  /\ last > 0
           /\ item.model_output[last].name = "done"
           /\ item.model_output[last].ok
           /\ "success" \in DOMAIN item.model_output[last].args
           /\ item.model_output[last].args.success = success

\* C30 as stated: when the run ends by the done action executed with
\* success=false, AgentState.success is false when run returns and
\* is_successful() on the history returns False.
C30_AsStated ==
    EndedByDone(FALSE) =>
        /\ state.success = FALSE
        /\ is_successful(history) = <<FALSE>>

\* a step is in progress: _execute_step has been called and has not returned
StepInProgress == run.pc \in {"step", "step.await"}

\* sigint_handler has just taken a request for a pause
PauseRequestedNow == ~ run.pause_requested /\ run'.pause_requested

\* run goes into a step it was not in
StepStarts == run.pc \notin {"step", "step.await"} /\ run'.pc = "step"

C33_AsStated ==
    /\ [](run # None =>
            (run.exit_requested =>
                /\ run.pc \in {"pause.save", "pause.wait", "after_loop", "returned"}
                /\ run.pc = "pause.wait" => run.resume_event))
    /\ [][run.exit_requested => run'.steps = run.steps]_vars

\* C34 as stated: a call of run that follows one that returned with done set
\* does not restore the state file.
C34_AsStated == run # None => ~ (run.earlier_done /\ run.restored)

\* C35 as stated: no action of a step is executed after an earlier action of
\* the step has changed the URL of the page.
C35_AsStated ==
    \A i \in DOMAIN history :
        \A k \in DOMAIN history[i].results : ~ history[i].results[k].stale

(***************************************************************************)
(* Properties of the domain restriction.                                   *)
(***************************************************************************)
\* the URLs the actions in the set by made the browser load are all allowed
OnlyAllowed(by) ==
    \A i \in DOMAIN loaded :
        loaded[i].by \in by => is_url_allowed(loaded[i].url, allowed_domains)

\* C31 as stated: while allowed_domains is non-empty, no URL whose host is
\* outside the allowed domains is loaded by navigate, search or new_tab.
C31_AsStated ==
    allowed_domains # <<>> => OnlyAllowed({"navigate", "search", "new_tab"})

\* what holds: navigate alone keeps to the allowed domains
NavigateOnlyAllowed ==
    allowed_domains # <<>> => OnlyAllowed({"navigate"})

(***************************************************************************)
(* Properties of the tab management.                                       *)
(***************************************************************************)
ActiveTabs == {i \in DOMAIN browser.tabs : browser.tabs[i].is_active}

\* C37 as stated: after any calls of create_tab, switch_tab and close_tab,
\* failing ones included, exactly one tracked tab has is_active true, and it
\* is the tab of the session's current target.
C37_AsStated ==
    browser # None =>
        /\ Cardinality(ActiveTabs) = 1
        /\ \A i \in ActiveTabs : browser.tabs[i].target_id = browser.target_id

ClosingTheOnlyTab ==
    /\ tab_reply # None
    /\ tab_reply.op \in {"close_tab", "actions.close_tab"}
    /\ tab_reply.tracked_before = 1

\* C38: a started session always tracks at least one tab; a call of
\* close_tab, of the session or of the action, made when one tab is tracked
\* ends with an error, sends no Target.closeTarget and leaves that tab
\* tracked.
C38_LastTabKept ==
    browser # None =>
        /\ Len(browser.tabs) >= 1
        /\ ClosingTheOnlyTab
              => /\ tab_reply.raised \in {"RuntimeError", "ValueError", "ActionResult.fail"}
                 /\ ~ tab_reply.closed
                 /\ Len(browser.tabs) = 1

C38_Witness ==
    /\ ClosingTheOnlyTab
    /\ tab_reply.raised = "RuntimeError"
    /\ tab_calls = 3
    /\ browser.tabs = <<TabInfo(1, TRUE)>>

(***************************************************************************)
(* Properties of the network watchdog.                                     *)
(***************************************************************************)
\* the answer a is given with no tracked request pending and at least the
\* idle threshold after the latest start, finish or failure of one
QuietFor(a) ==
    /\ a.pending = {}
    /\ a.last_event # <<>> => a.at - a.last_event[1] >= a.idle_threshold

\* C39 as stated: is_idle and wait_for_idle answer idle only when no tracked
\* request is pending and at least idle_threshold has passed since the most
\* recent start, finish or failure of a request.
C39_AsStated ==
    (net # None /\ net.reply # <<>> /\ net.reply[1].idle) => QuietFor(net.reply[1])

\* the answers are never idle while a tracked request is pending
IdleOnlyWithNonePending ==
    (net # None /\ net.reply # <<>> /\ net.reply[1].idle) => net.reply[1].pending = {}

(***************************************************************************)
(* Properties of emits in flight together.                                 *)
(***************************************************************************)
\* the calls of emit, as <<coroutine, depth>>, that hold the registration
\* with this ticket in their copy of the lists
TakenBy(ticket) ==
    { cd \in UNION { {<<c, d>> : d \in DOMAIN frames[c]} : c \in DOMAIN frames } :
        \E p \in DOMAIN frames[cd[1]][cd[2]].all_handlers :
            frames[cd[1]][cd[2]].all_handlers[p].ticket = ticket }

\* the registration with this ticket is still on the one-time list
Waiting(ticket) ==
    \E type \in DOMAIN once_handlers : \E p \in DOMAIN once_handlers[type] :
        once_handlers[type][p].ticket = ticket

\* C40: the handler of a registration made with once is invoked at most once
\* for it, whether the emits of its event type are nested in a handler or
\* scheduled together by emit_sync: at most one call of emit holds the
\* registration, and none does while it is still on the one-time list.
C40_OnceAtMostOnce ==
    \A ticket \in 1..registrations :
        times_called[ticket].once =>
            /\ times_called[ticket].times <= 1
            /\ Cardinality(TakenBy(ticket)) <= 1
            /\ Waiting(ticket) => TakenBy(ticket) = {} /\ times_called[ticket].times = 0

\* the one-time handler has been called and awaits an emit of its event
\* type, which is calling the regular handler, while an emit scheduled by
\* emit_sync is calling the regular handler too
C40_Witness ==
    \E ticket \in 1..registrations, c, s \in DOMAIN frames :
        /\ times_called[ticket].once
        /\ times_called[ticket].times = 1
        /\ Len(frames[c]) = 2
        /\ <<c, 1>> \in TakenBy(ticket)
        /\ frames[c][1].all_handlers[frames[c][1].next].ticket = ticket
        /\ frames[c][2].pc = "in_handler"
        /\ frames[c][2].event_type = frames[c][1].event_type
        /\ frames[s][1].by = "emit_sync"
        /\ frames[s][1].pc = "in_handler"
        /\ frames[s][1].event_type = frames[c][1].event_type

====
